---- MODULE Spec2Model ----
(***************************************************************************)
(* A model of the turn kernel of the roguelike: the run-state machine of   *)
(* State::tick, the system pipeline of State::run_systems, the inventory   *)
(* systems, the monster AI, the visibility system, the input adapter and   *)
(* the save/load snapshot.  The world (specs::World) is one record, `ecs`, *)
(* whose fields are the component storages and the resources; a system is  *)
(* an operator from world to world, so that a pass is the composition the  *)
(* source writes.                                                          *)
(***************************************************************************)
EXTENDS Integers, Sequences, FiniteSets, TLC

VARIABLES ecs, runstate, savefile, pipeline_runs

vars == <<ecs, runstate, savefile, pipeline_runs>>

(***************************************************************************)
(* Bounds of the model.                                                    *)
(***************************************************************************)
\* largest heal_amount / damage / confusion turns the spawned items carry
MaxAmount == 2
\* the player's starting max_hp
PlayerMaxHp == 3

\* the longest run of new_damage calls for one victim that is checked
MaxCalls == 3

(***************************************************************************)
(* Component storages: a storage is a function whose domain is the set of  *)
(* entities that have the component (specs' insert / remove / get).        *)
(***************************************************************************)
NoStore == [e \in {} |-> 0]

Has(store, e) == e \in DOMAIN store

Insert(store, e, v) == [x \in (DOMAIN store) \cup {e} |-> IF x = e THEN v ELSE store[x]]

Remove(store, e) == [x \in (DOMAIN store) \ {e} |-> store[x]]

\* a join iterates in ascending entity id
RECURSIVE SortedSeq(_)
SortedSeq(S) ==
    IF S = {} THEN <<>>
    ELSE LET m == CHOOSE x \in S : \A y \in S : x <= y
         IN <<m>> \o SortedSeq(S \ {m})

RECURSIVE Sum(_)
Sum(s) == IF s = <<>> THEN 0 ELSE Head(s) + Sum(Tail(s))

Min(a, b) == IF a <= b THEN a ELSE b

Max(a, b) == IF a >= b THEN a ELSE b

SeqToSet(s) == {s[i] : i \in 1..Len(s)}

(***************************************************************************)
(* Entities.  The spawner creates the player, the monsters and the items;  *)
(* ids are the order of creation.                                          *)
(***************************************************************************)
PlayerId == 1

(***************************************************************************)
(* The map.  The generator hands over a tile array whose border tiles are  *)
(* walls; the rooms the model starts in are carved out of this rectangle.  *)
(***************************************************************************)
MapRows ==
    [closet |->
        << <<"Wall", "Wall",  "Wall",  "Wall",  "Wall">>,
           <<"Wall", "Floor", "Floor", "Wall",  "Wall">>,
           <<"Wall", "Wall",  "Wall",  "Wall",  "Wall">>,
           <<"Wall", "Wall",  "Wall",  "Wall",  "Wall">> >>,
     corridor |->
        << <<"Wall", "Wall",  "Wall",  "Wall",  "Wall">>,
           <<"Wall", "Floor", "Floor", "Floor", "Wall">>,
           <<"Wall", "Wall",  "Wall",  "Wall",  "Wall">>,
           <<"Wall", "Wall",  "Wall",  "Wall",  "Wall">> >>,
     hall |->
        << <<"Wall", "Wall",  "Wall",  "Wall",  "Wall">>,
           <<"Wall", "Floor", "Floor", "Floor", "Wall">>,
           <<"Wall", "Floor", "Floor", "Floor", "Wall">>,
           <<"Wall", "Wall",  "Wall",  "Wall",  "Wall">> >>]

width == Len(MapRows.hall[1])

height == Len(MapRows.hall)

MAPCOUNT == width * height

TileIdx == 0..(MAPCOUNT - 1)

Point(px, py) == [x |-> px, y |-> py]

xy_idx(px, py) == (py * width) + px

idx_point(idx) == Point(idx % width, idx \div width)

RoomTiles(room) ==
    [idx \in TileIdx |-> MapRows[room][(idx \div width) + 1][(idx % width) + 1]]

AllPoints == {Point(px, py) : px \in 0..(width - 1), py \in 0..(height - 1)}

is_opaque(map, idx) == map.tiles[idx] = "Wall"

DistSq(p, q) == ((p.x - q.x) * (p.x - q.x)) + ((p.y - q.y) * (p.y - q.y))

\* the tiles strictly between two tiles on the straight line through them
Between(c, p) ==
    {q \in AllPoints \ {c, p} :
        /\ ((q.x - c.x) * (p.y - c.y)) = ((q.y - c.y) * (p.x - c.x))
        /\ Min(c.x, p.x) <= q.x /\ q.x <= Max(c.x, p.x)
        /\ Min(c.y, p.y) <= q.y /\ q.y <= Max(c.y, p.y)}

\* rltk::field_of_view: the tiles within `range` of `center` that a ray from
\* `center` reaches; a ray ends on the first opaque tile, which it includes.
field_of_view(center, range, map) ==
    {p \in AllPoints :
        /\ DistSq(center, p) <= range * range
        /\ \A q \in Between(center, p) : ~is_opaque(map, xy_idx(q.x, q.y))}

(***************************************************************************)
(* Pathfinding (rltk::a_star_search over the map's exits).                 *)
(***************************************************************************)
Directions ==
    { <<-1, 0, 100>>, <<1, 0, 100>>, <<0, -1, 100>>, <<0, 1, 100>>,
      <<-1, -1, 145>>, <<1, -1, 145>>, <<-1, 1, 145>>, <<1, 1, 145>> }

is_exit_valid(px, py, blocked) ==
    /\ ~(px < 1 \/ px > width - 1 \/ py < 1 \/ py > height - 1)
    /\ ~blocked[xy_idx(px, py)]

\* the (neighbour index, cost) pairs one step away from idx
get_available_exits(idx, blocked) ==
    { <<xy_idx((idx % width) + d[1], (idx \div width) + d[2]), d[3]>> :
        d \in { dd \in Directions :
                  is_exit_valid((idx % width) + dd[1], (idx \div width) + dd[2], blocked) } }

Unreachable == 1000 * MAPCOUNT

MinOf(S) == CHOOSE x \in S : \A y \in S : x <= y

MaxOf(S) == CHOOSE x \in S : \A y \in S : x >= y

\* cost of the cheapest walk from every tile to `goal`
RECURSIVE CostTo(_, _, _)
CostTo(D, goal, blocked) ==
    LET step == [t \in TileIdx |->
                    LET ex == get_available_exits(t, blocked)
                        via == {e[2] + D[e[1]] : e \in ex}
                    IN IF t = goal THEN 0
                       ELSE IF via = {} THEN D[t]
                       ELSE Min(D[t], MinOf(via))]
    IN IF step = D THEN D ELSE CostTo(step, goal, blocked)

RECURSIVE WalkTo(_, _, _, _, _)
WalkTo(at, goal, D, blocked, tiebreak) ==
    IF at = goal THEN <<at>>
    ELSE LET best == {e[1] : e \in {ex \in get_available_exits(at, blocked) :
                                      ex[2] + D[ex[1]] = D[at]}}
             nxt == IF tiebreak = "low" THEN MinOf(best) ELSE MaxOf(best)
         IN <<at>> \o WalkTo(nxt, goal, D, blocked, tiebreak)

\* a cheapest path; which of several cheapest paths the search returns is
\* left to `tiebreak`
a_star_search(start, end, blocked, tiebreak) ==
    LET D == CostTo([t \in TileIdx |-> IF t = end THEN 0 ELSE Unreachable], end, blocked)
    IN IF D[start] >= Unreachable
       THEN [success |-> FALSE, steps |-> <<>>]
       ELSE [success |-> TRUE, steps |-> WalkTo(start, end, D, blocked, tiebreak)]

(***************************************************************************)
(* Entity deletion: the entity leaves every storage.                       *)
(***************************************************************************)
Drop(store, dead) == [x \in (DOMAIN store) \ dead |-> store[x]]

DeleteEntities(w, dead) ==
    [w EXCEPT
        !.alive = @ \ dead,
        !.marked = @ \ dead,
        !.players = @ \ dead,
        !.monsters = @ \ dead,
        !.items = @ \ dead,
        !.blocks_tile = @ \ dead,
        !.consumables = @ \ dead,
        !.positions = Drop(@, dead),
        !.viewsheds = Drop(@, dead),
        !.combat_stats = Drop(@, dead),
        !.wants_to_melee = Drop(@, dead),
        !.suffer_damage = Drop(@, dead),
        !.healing = Drop(@, dead),
        !.inflict_damage = Drop(@, dead),
        !.aoe = Drop(@, dead),
        !.confusion = Drop(@, dead),
        !.ranged = Drop(@, dead),
        !.equippable = Drop(@, dead),
        !.equipped = Drop(@, dead),
        !.backpack = Drop(@, dead),
        !.wants_pickup = Drop(@, dead),
        !.wants_use_item = Drop(@, dead),
        !.wants_drop = Drop(@, dead),
        !.wants_remove = Drop(@, dead),
        !.helper = Drop(@, dead)]

\* World::maintain: the deletions queued by Entities::delete take effect
maintain(w) == [DeleteEntities(w, w.killed) EXCEPT !.killed = {}]

(***************************************************************************)
(* VisibilitySystem                                                        *)
(***************************************************************************)
VisibleRetain(p) == p.x >= 0 /\ p.x < width /\ p.y >= 0 /\ p.y <= height

\* a faulty variant: a recomputed viewshed keeps its dirty flag
VisibilitySystemKeepDirty(w) ==
    LET dirty == {e \in DOMAIN w.viewsheds : Has(w.positions, e) /\ w.viewsheds[e].dirty}
        seen(e) == {p \in field_of_view(w.positions[e], w.viewsheds[e].range, w.map) :
                      VisibleRetain(p)}
        dirtyPlayers == dirty \cap w.players
        shown == IF dirtyPlayers = {} THEN {} ELSE seen(MaxOf(dirtyPlayers))
        revealed == UNION {seen(e) : e \in dirtyPlayers}
    IN [w EXCEPT
          !.viewsheds = [e \in DOMAIN @ |->
                           IF e \in dirty
                           THEN [@[e] EXCEPT !.visible_tiles = seen(e)]
                           ELSE @[e]],
          !.map.visible_tiles =
              IF dirtyPlayers = {} THEN @
              ELSE [idx \in TileIdx |-> idx_point(idx) \in shown],
          !.map.revealed_tiles =
              [idx \in TileIdx |-> @[idx] \/ idx_point(idx) \in revealed]]

\* a faulty variant: the map's visible_tiles are not cleared before the
\* player's fresh tiles are set
VisibilitySystemNoClear(w) ==
    LET dirty == {e \in DOMAIN w.viewsheds : Has(w.positions, e) /\ w.viewsheds[e].dirty}
        seen(e) == {p \in field_of_view(w.positions[e], w.viewsheds[e].range, w.map) :
                      VisibleRetain(p)}
        dirtyPlayers == dirty \cap w.players
        revealed == UNION {seen(e) : e \in dirtyPlayers}
    IN [w EXCEPT
          !.viewsheds = [e \in DOMAIN @ |->
                           IF e \in dirty
                           THEN [@[e] EXCEPT !.dirty = FALSE, !.visible_tiles = seen(e)]
                           ELSE @[e]],
          !.map.visible_tiles =
              [idx \in TileIdx |-> @[idx] \/ idx_point(idx) \in revealed],
          !.map.revealed_tiles =
              [idx \in TileIdx |-> @[idx] \/ idx_point(idx) \in revealed]]

\* a faulty variant: every recomputed viewshed is shown on the map, the
\* player's or not
VisibilitySystemAllReveal(w) ==
    LET dirty == {e \in DOMAIN w.viewsheds : Has(w.positions, e) /\ w.viewsheds[e].dirty}
        seen(e) == {p \in field_of_view(w.positions[e], w.viewsheds[e].range, w.map) :
                      VisibleRetain(p)}
        shown == IF dirty = {} THEN {} ELSE seen(MaxOf(dirty))
        revealed == UNION {seen(e) : e \in dirty}
    IN [w EXCEPT
          !.viewsheds = [e \in DOMAIN @ |->
                           IF e \in dirty
                           THEN [@[e] EXCEPT !.dirty = FALSE, !.visible_tiles = seen(e)]
                           ELSE @[e]],
          !.map.visible_tiles =
              IF dirty = {} THEN @
              ELSE [idx \in TileIdx |-> idx_point(idx) \in shown],
          !.map.revealed_tiles =
              [idx \in TileIdx |-> @[idx] \/ idx_point(idx) \in revealed]]

VisibilitySystem(w) ==
    LET dirty == {e \in DOMAIN w.viewsheds : Has(w.positions, e) /\ w.viewsheds[e].dirty}
        seen(e) == {p \in field_of_view(w.positions[e], w.viewsheds[e].range, w.map) :
                      VisibleRetain(p)}
        dirtyPlayers == dirty \cap w.players
        shown == IF dirtyPlayers = {} THEN {} ELSE seen(MaxOf(dirtyPlayers))
        revealed == UNION {seen(e) : e \in dirtyPlayers}
    IN [w EXCEPT
          !.viewsheds = [e \in DOMAIN @ |->
                           IF e \in dirty
                           THEN [@[e] EXCEPT !.dirty = FALSE, !.visible_tiles = seen(e)]
                           ELSE @[e]],
          !.map.visible_tiles =
              IF dirtyPlayers = {} THEN @
              ELSE [idx \in TileIdx |-> idx_point(idx) \in shown],
          !.map.revealed_tiles =
              [idx \in TileIdx |-> @[idx] \/ idx_point(idx) \in revealed]]

(***************************************************************************)
(* MonsterAI                                                               *)
(***************************************************************************)
\* a faulty variant: the diagonal neighbours are out of reach
InMeleeRangeOrthogonal(p, q) == DistSq(p, q) <= 1

InMeleeRange(p, q) == 4 * DistSq(p, q) < 9

\* a faulty variant: the path is searched through the walls only, as if no
\* entity blocked a tile
AttackOrApproachThroughMonsters(w, entity, tiebreak) ==
    LET pos == w.positions[entity]
    IN IF InMeleeRange(pos, w.player_pos)
       THEN [w EXCEPT !.wants_to_melee = Insert(@, entity, [target |-> w.player_entity])]
       ELSE IF w.player_pos \in w.viewsheds[entity].visible_tiles
       THEN LET path == a_star_search(xy_idx(pos.x, pos.y),
                                      xy_idx(w.player_pos.x, w.player_pos.y),
                                      [idx \in TileIdx |-> w.map.tiles[idx] = "Wall"],
                                      tiebreak)
            IN IF path.success /\ Len(path.steps) > 1
               THEN LET newpos == Point(path.steps[2] % width, path.steps[2] \div width)
                    IN [w EXCEPT
                          !.map.blocked = [[@ EXCEPT ![xy_idx(pos.x, pos.y)] = FALSE]
                                              EXCEPT ![xy_idx(newpos.x, newpos.y)] = TRUE],
                          !.positions[entity] = newpos,
                          !.viewsheds[entity].dirty = TRUE]
               ELSE w
       ELSE w

\* a faulty variant: the tile the monster leaves stays blocked
AttackOrApproachKeepBlocked(w, entity, tiebreak) ==
    LET pos == w.positions[entity]
    IN IF InMeleeRange(pos, w.player_pos)
       THEN [w EXCEPT !.wants_to_melee = Insert(@, entity, [target |-> w.player_entity])]
       ELSE IF w.player_pos \in w.viewsheds[entity].visible_tiles
       THEN LET path == a_star_search(xy_idx(pos.x, pos.y),
                                      xy_idx(w.player_pos.x, w.player_pos.y),
                                      w.map.blocked, tiebreak)
            IN IF path.success /\ Len(path.steps) > 1
               THEN LET newpos == Point(path.steps[2] % width, path.steps[2] \div width)
                    IN [w EXCEPT
                          !.map.blocked[xy_idx(newpos.x, newpos.y)] = TRUE,
                          !.positions[entity] = newpos,
                          !.viewsheds[entity].dirty = TRUE]
               ELSE w
       ELSE w

\* what a monster that can act does: attack in melee range, else step
\* towards a player it sees
AttackOrApproach(w, entity, tiebreak) ==
    LET pos == w.positions[entity]
    IN IF InMeleeRange(pos, w.player_pos)
       THEN [w EXCEPT !.wants_to_melee = Insert(@, entity, [target |-> w.player_entity])]
       ELSE IF w.player_pos \in w.viewsheds[entity].visible_tiles
       THEN LET path == a_star_search(xy_idx(pos.x, pos.y),
                                      xy_idx(w.player_pos.x, w.player_pos.y),
                                      w.map.blocked, tiebreak)
            IN IF path.success /\ Len(path.steps) > 1
               THEN LET newpos == Point(path.steps[2] % width, path.steps[2] \div width)
                    IN [w EXCEPT
                          !.map.blocked = [[@ EXCEPT ![xy_idx(pos.x, pos.y)] = FALSE]
                                              EXCEPT ![xy_idx(newpos.x, newpos.y)] = TRUE],
                          !.positions[entity] = newpos,
                          !.viewsheds[entity].dirty = TRUE]
               ELSE w
       ELSE w

\* a faulty variant: the confusion is removed one turn late
MonsterActLateRemove(w, entity, tiebreak) ==
    IF Has(w.confusion, entity)
    THEN IF w.confusion[entity] - 1 < 0
         THEN [w EXCEPT !.confusion = Remove(@, entity)]
         ELSE [w EXCEPT !.confusion[entity] = @ - 1]
    ELSE AttackOrApproach(w, entity, tiebreak)

MonsterAct(w, entity, tiebreak) ==
    IF Has(w.confusion, entity)
    THEN \* confused: count down and skip the turn
         IF w.confusion[entity] - 1 < 1
         THEN [w EXCEPT !.confusion = Remove(@, entity)]
         ELSE [w EXCEPT !.confusion[entity] = @ - 1]
    ELSE AttackOrApproach(w, entity, tiebreak)

RECURSIVE MonsterLoop(_, _, _)
MonsterLoop(w, todo, tiebreak) ==
    IF todo = <<>> THEN w
    ELSE MonsterLoop(MonsterAct(w, Head(todo), tiebreak), Tail(todo), tiebreak)

\* a faulty variant: the monsters act whatever the run state
MonsterAIAnyState(w, rs, tiebreak) ==
    MonsterLoop(w,
                SortedSeq({e \in w.alive : /\ Has(w.viewsheds, e)
                                           /\ e \in w.monsters
                                           /\ Has(w.positions, e)}),
                tiebreak)

MonsterAI(w, rs, tiebreak) ==
    IF rs # "MonsterTurn" THEN w
    ELSE MonsterLoop(w,
                     SortedSeq({e \in w.alive : /\ Has(w.viewsheds, e)
                                                /\ e \in w.monsters
                                                /\ Has(w.positions, e)}),
                     tiebreak)

(***************************************************************************)
(* MapIndexingSystem: blocked and tile_content rebuilt from the positions. *)
(***************************************************************************)
populate_blocked(map) == [idx \in TileIdx |-> map.tiles[idx] = "Wall"]

MapIndexingSystem(w) ==
    LET at(idx) == {e \in w.alive : Has(w.positions, e) /\
                                    xy_idx(w.positions[e].x, w.positions[e].y) = idx}
    IN [w EXCEPT
          !.map.blocked = [idx \in TileIdx |->
                             populate_blocked(w.map)[idx] \/ (at(idx) \cap w.blocks_tile # {})],
          !.map.tile_content = [idx \in TileIdx |-> SortedSeq(at(idx))]]

(***************************************************************************)
(* SufferDamage::new_damage                                                *)
(***************************************************************************)
\* a faulty variant: a new amount replaces what was pending
new_damage_overwrite(store, victim, amount) == Insert(store, victim, <<amount>>)

new_damage(store, victim, amount) ==
    IF Has(store, victim)
    THEN [store EXCEPT ![victim] = Append(@, amount)]
    ELSE Insert(store, victim, <<amount>>)

(***************************************************************************)
(* Combat resolution: melee, damage, death.                                *)
(***************************************************************************)
RECURSIVE MeleeLoop(_, _)
MeleeLoop(w, todo) ==
    IF todo = <<>> THEN w
    ELSE LET attacker == Head(todo)
             target == w.wants_to_melee[attacker].target
             hit == w.combat_stats[attacker].power - w.combat_stats[target].defense
         IN IF Has(w.combat_stats, target) /\ hit > 0
            THEN MeleeLoop([w EXCEPT !.suffer_damage = new_damage(@, target, hit)], Tail(todo))
            ELSE MeleeLoop(w, Tail(todo))

MeleeCombatSystem(w) ==
    [MeleeLoop(w, SortedSeq({e \in DOMAIN w.wants_to_melee : Has(w.combat_stats, e)}))
        EXCEPT !.wants_to_melee = NoStore]

DamageSystem(w) ==
    [w EXCEPT
        !.combat_stats = [e \in DOMAIN @ |->
                            IF Has(w.suffer_damage, e)
                            THEN [@[e] EXCEPT !.hp = @ - Sum(w.suffer_damage[e])]
                            ELSE @[e]],
        !.suffer_damage = NoStore]

\* the dead: every entity whose hp is below 1; the player is reported, not deleted
delete_the_dead(w) ==
    DeleteEntities(w, {e \in DOMAIN w.combat_stats :
                          w.combat_stats[e].hp < 1 /\ e \notin w.players})

PlayerDead(w) == \E e \in w.players : Has(w.combat_stats, e) /\ w.combat_stats[e].hp < 1

(***************************************************************************)
(* InventorySystem (pickup)                                                *)
(***************************************************************************)
\* a faulty variant: the item picked up stays on the ground as well
PickUpKeepPosition(w, entity) ==
    LET pickup == w.wants_pickup[entity]
    IN [w EXCEPT
          !.backpack = Insert(@, pickup.item, [owner |-> pickup.collected_by])]

PickUp(w, entity) ==
    LET pickup == w.wants_pickup[entity]
    IN [w EXCEPT
          !.positions = Remove(@, pickup.item),
          !.backpack = Insert(@, pickup.item, [owner |-> pickup.collected_by])]

RECURSIVE PickupLoop(_, _)
PickupLoop(w, todo) ==
    IF todo = <<>> THEN w ELSE PickupLoop(PickUp(w, Head(todo)), Tail(todo))

InventorySystem(w) ==
    [PickupLoop(w, SortedSeq(DOMAIN w.wants_pickup)) EXCEPT !.wants_pickup = NoStore]

(***************************************************************************)
(* ItemUseSystem.  An Option<Point> is a set of at most one point.         *)
(***************************************************************************)
AoeRetain(p) == p.x > 0 /\ p.x < width - 1 /\ p.y > 0 /\ p.y < height - 1

RECURSIVE Flatten(_)
Flatten(ss) == IF ss = <<>> THEN <<>> ELSE Head(ss) \o Flatten(Tail(ss))

\* the entities the item is applied to
\* a faulty variant: the area of effect is ignored
TargetsSingleTile(w, useitem) ==
    IF useitem.target = {}
    THEN <<w.player_entity>>
    ELSE LET target == CHOOSE p \in useitem.target : TRUE
         IN w.map.tile_content[xy_idx(target.x, target.y)]

\* a faulty variant: without a target the item is applied to everything on
\* the player's tile
TargetsUnderPlayer(w, useitem) ==
    IF useitem.target = {}
    THEN w.map.tile_content[xy_idx(w.player_pos.x, w.player_pos.y)]
    ELSE LET target == CHOOSE p \in useitem.target : TRUE
         IN IF ~Has(w.aoe, useitem.item)
            THEN w.map.tile_content[xy_idx(target.x, target.y)]
            ELSE LET affected_tiles ==
                         {p \in field_of_view(target, w.aoe[useitem.item], w.map) :
                             AoeRetain(p)}
                     order == SortedSeq({xy_idx(p.x, p.y) : p \in affected_tiles})
                 IN Flatten([i \in 1..Len(order) |-> w.map.tile_content[order[i]]])

Targets(w, useitem) ==
    IF useitem.target = {}
    THEN <<w.player_entity>>
    ELSE LET target == CHOOSE p \in useitem.target : TRUE
         IN IF ~Has(w.aoe, useitem.item)
            THEN w.map.tile_content[xy_idx(target.x, target.y)]
            ELSE LET affected_tiles ==
                         {p \in field_of_view(target, w.aoe[useitem.item], w.map) :
                             AoeRetain(p)}
                     order == SortedSeq({xy_idx(p.x, p.y) : p \in affected_tiles})
                 IN Flatten([i \in 1..Len(order) |-> w.map.tile_content[order[i]]])

RECURSIVE HealLoop(_, _, _)
HealLoop(stats, targets, heal_amount) ==
    IF targets = <<>> THEN stats
    ELSE IF Has(stats, Head(targets))
    THEN HealLoop([stats EXCEPT ![Head(targets)].hp = Min(stats[Head(targets)].max_hp,
                                                           @ + heal_amount)],
                  Tail(targets), heal_amount)
    ELSE HealLoop(stats, Tail(targets), heal_amount)

RECURSIVE DamageLoop(_, _, _)
DamageLoop(store, targets, damage) ==
    IF targets = <<>> THEN store
    ELSE DamageLoop(new_damage(store, Head(targets), damage), Tail(targets), damage)

RECURSIVE ConfuseLoop(_, _, _)
ConfuseLoop(store, targets, turns) ==
    IF targets = <<>> THEN store
    ELSE ConfuseLoop(Insert(store, Head(targets), turns), Tail(targets), turns)

RECURSIVE StowLoop(_, _, _)
StowLoop(store, todo, owner) ==
    IF todo = <<>> THEN store
    ELSE StowLoop(Insert(store, Head(todo), [owner |-> owner]), Tail(todo), owner)

\* used_item after the healing branch
UsedAfterHealing(w, item, targets) ==
    IF Has(w.healing, item)
    THEN \E i \in 1..Len(targets) : Has(w.combat_stats, targets[i])
    ELSE TRUE

\* used_item after the damage branch
UsedAfterDamage(w, item, targets) ==
    IF Has(w.inflict_damage, item)
    THEN targets # <<>>
    ELSE UsedAfterHealing(w, item, targets)

\* used_item after the confusion branch, which resets it and never sets it
UsedAfterConfusion(w, item, targets) ==
    IF Has(w.confusion, item)
    THEN FALSE
    ELSE UsedAfterDamage(w, item, targets)

\* a faulty variant: the heal is not clamped to max_hp
HealUnclamped(w, item, targets) ==
    IF Has(w.healing, item)
    THEN [w EXCEPT !.combat_stats =
             [e \in DOMAIN @ |-> IF e \in SeqToSet(targets)
                                 THEN [@[e] EXCEPT !.hp = @ + w.healing[item]]
                                 ELSE @[e]]]
    ELSE w

Heal(w, item, targets) ==
    IF Has(w.healing, item)
    THEN [w EXCEPT !.combat_stats = HealLoop(@, targets, w.healing[item])]
    ELSE w

Damage(w, item, targets) ==
    IF Has(w.inflict_damage, item)
    THEN [w EXCEPT !.suffer_damage = DamageLoop(@, targets, w.inflict_damage[item])]
    ELSE w

Confuse(w, item, targets) ==
    IF Has(w.confusion, item)
    THEN [w EXCEPT !.confusion = ConfuseLoop(@, targets, w.confusion[item])]
    ELSE w

\* a faulty variant: what the slot held stays equipped
EquipWithoutUnequip(w, item, targets) ==
    IF Has(w.equippable, item)
    THEN [w EXCEPT
            !.equipped = Insert(@, item, [owner |-> targets[1], slot |-> w.equippable[item]]),
            !.backpack = Remove(@, item)]
    ELSE w

Equip(w, item, targets) ==
    IF Has(w.equippable, item)
    THEN LET target_slot == w.equippable[item]
             target == targets[1]
             to_unequip == {i \in DOMAIN w.equipped :
                              /\ w.equipped[i].owner = target
                              /\ w.equipped[i].slot = target_slot}
         IN [w EXCEPT
               !.equipped = Insert(Drop(@, to_unequip), item,
                                   [owner |-> target, slot |-> target_slot]),
               !.backpack = Remove(StowLoop(@, SortedSeq(to_unequip), target), item)]
    ELSE w

Consume(w, item, used_item) ==
    IF used_item /\ item \in w.consumables
    THEN [w EXCEPT !.killed = @ \cup {item}]
    ELSE w

UseItem(w, entity) ==
    LET useitem == w.wants_use_item[entity]
        targets == Targets(w, useitem)
    IN Consume(Equip(Confuse(Damage(Heal(w, useitem.item, targets),
                                    useitem.item, targets),
                             useitem.item, targets),
                     useitem.item, targets),
               useitem.item,
               UsedAfterConfusion(w, useitem.item, targets))

RECURSIVE UseLoop(_, _)
UseLoop(w, todo) ==
    IF todo = <<>> THEN w ELSE UseLoop(UseItem(w, Head(todo)), Tail(todo))

ItemUseSystem(w) ==
    [UseLoop(w, SortedSeq(DOMAIN w.wants_use_item)) EXCEPT !.wants_use_item = NoStore]

(***************************************************************************)
(* ItemDropSystem and ItemRemoveSystem                                     *)
(***************************************************************************)
\* a faulty variant: the item is dropped at the origin the code starts from
DropItemAtOrigin(w, entity) ==
    LET to_drop == w.wants_drop[entity]
    IN [w EXCEPT
          !.positions = Insert(@, to_drop.item, Point(0, 0)),
          !.backpack = Remove(@, to_drop.item)]

DropItem(w, entity) ==
    LET to_drop == w.wants_drop[entity]
        dropper_pos == w.positions[entity]
    IN [w EXCEPT
          !.positions = Insert(@, to_drop.item, Point(dropper_pos.x, dropper_pos.y)),
          !.backpack = Remove(@, to_drop.item)]

RECURSIVE DropLoop(_, _)
DropLoop(w, todo) ==
    IF todo = <<>> THEN w ELSE DropLoop(DropItem(w, Head(todo)), Tail(todo))

ItemDropSystem(w) ==
    [DropLoop(w, SortedSeq(DOMAIN w.wants_drop)) EXCEPT !.wants_drop = NoStore]

RemoveItem(w, entity) ==
    LET to_remove == w.wants_remove[entity]
    IN [w EXCEPT
          !.equipped = Remove(@, to_remove.item),
          !.backpack = Insert(@, to_remove.item, [owner |-> entity])]

RECURSIVE RemoveLoop(_, _)
RemoveLoop(w, todo) ==
    IF todo = <<>> THEN w ELSE RemoveLoop(RemoveItem(w, Head(todo)), Tail(todo))

ItemRemoveSystem(w) ==
    [RemoveLoop(w, SortedSeq(DOMAIN w.wants_remove)) EXCEPT !.wants_remove = NoStore]

(***************************************************************************)
(* State::run_systems: the pipeline, in the order the source runs it.      *)
(* ItemRemoveSystem is not part of it.                                     *)
(***************************************************************************)
\* the world after the Visibility and Monster AI systems
AfterMonsterAI(w, rs, tiebreak) == MonsterAI(VisibilitySystem(w), rs, tiebreak)

\* a faulty variant: the Map Indexing system runs before the Monster AI system
AfterDamageIndexFirst(w, rs, tiebreak) ==
    DamageSystem(MeleeCombatSystem(
        MonsterAI(MapIndexingSystem(VisibilitySystem(w)), rs, tiebreak)))

\* the world after the Damage system
AfterDamage(w, rs, tiebreak) ==
    DamageSystem(MeleeCombatSystem(MapIndexingSystem(AfterMonsterAI(w, rs, tiebreak))))

\* the world the Item Use system starts from
BeforeItemUse(w, rs, tiebreak) == InventorySystem(AfterDamage(w, rs, tiebreak))

\* a faulty variant: the Damage system runs before the Melee Combat system
run_systems_damage_first(w, rs, tiebreak) ==
    maintain(ItemDropSystem(ItemUseSystem(InventorySystem(
        MeleeCombatSystem(DamageSystem(MapIndexingSystem(AfterMonsterAI(w, rs, tiebreak))))))))

run_systems(w, rs, tiebreak) ==
    maintain(ItemDropSystem(ItemUseSystem(BeforeItemUse(w, rs, tiebreak))))

(***************************************************************************)
(* The input adapter (player.rs).                                          *)
(***************************************************************************)
ClampX == 79

ClampY == 49

out_of_bounds(dest_x, dest_y) ==
    dest_x < 1 \/ dest_x > width - 1 \/ dest_y < 1 \/ dest_y > height - 1

\* the first entity of a tile's content that has CombatStats, as a set
FirstFighter(w, content) ==
    LET fighters == {i \in 1..Len(content) : Has(w.combat_stats, content[i])}
    IN IF fighters = {} THEN {} ELSE {content[MinOf(fighters)]}

\* a faulty variant: the Point resource is not updated with the Position
MovePlayerKeepPoint(w, entity, delta_x, delta_y) ==
    LET pos == w.positions[entity]
        dest_x == pos.x + delta_x
        dest_y == pos.y + delta_y
        destination_idx == xy_idx(dest_x, dest_y)
        fighter == FirstFighter(w, w.map.tile_content[destination_idx])
    IN IF out_of_bounds(dest_x, dest_y) THEN w
       ELSE IF fighter # {}
       THEN [w EXCEPT !.wants_to_melee =
                          Insert(@, entity, [target |-> CHOOSE t \in fighter : TRUE])]
       ELSE IF ~w.map.blocked[destination_idx]
       THEN LET newpos == Point(Min(ClampX, Max(0, dest_x)), Min(ClampY, Max(0, dest_y)))
            IN [w EXCEPT !.positions[entity] = newpos,
                         !.viewsheds[entity].dirty = TRUE]
       ELSE w

\* a faulty variant: the blocked bit of the destination is not consulted
MovePlayerThroughBlocked(w, entity, delta_x, delta_y) ==
    LET pos == w.positions[entity]
        dest_x == pos.x + delta_x
        dest_y == pos.y + delta_y
        destination_idx == xy_idx(dest_x, dest_y)
        fighter == FirstFighter(w, w.map.tile_content[destination_idx])
    IN IF out_of_bounds(dest_x, dest_y) THEN w
       ELSE IF fighter # {}
       THEN [w EXCEPT !.wants_to_melee =
                          Insert(@, entity, [target |-> CHOOSE t \in fighter : TRUE])]
       ELSE LET newpos == Point(Min(ClampX, Max(0, dest_x)), Min(ClampY, Max(0, dest_y)))
            IN [w EXCEPT !.positions[entity] = newpos,
                         !.viewsheds[entity].dirty = TRUE,
                         !.player_pos = newpos]

MovePlayer(w, entity, delta_x, delta_y) ==
    LET pos == w.positions[entity]
        dest_x == pos.x + delta_x
        dest_y == pos.y + delta_y
        destination_idx == xy_idx(dest_x, dest_y)
        fighter == FirstFighter(w, w.map.tile_content[destination_idx])
    IN IF out_of_bounds(dest_x, dest_y) THEN w
       ELSE IF fighter # {}
       THEN [w EXCEPT !.wants_to_melee =
                          Insert(@, entity, [target |-> CHOOSE t \in fighter : TRUE])]
       ELSE IF ~w.map.blocked[destination_idx]
       THEN LET newpos == Point(Min(ClampX, Max(0, dest_x)), Min(ClampY, Max(0, dest_y)))
            IN [w EXCEPT !.positions[entity] = newpos,
                         !.viewsheds[entity].dirty = TRUE,
                         !.player_pos = newpos]
       ELSE w

\* the loop returns from the function at the first joined entity unless that
\* entity's destination is blocked and holds no fighter
RECURSIVE MoveLoop(_, _, _, _)
MoveLoop(w, todo, delta_x, delta_y) ==
    IF todo = <<>> THEN w
    ELSE LET entity == Head(todo)
             pos == w.positions[entity]
             stops == \/ out_of_bounds(pos.x + delta_x, pos.y + delta_y)
                      \/ FirstFighter(w, w.map.tile_content[
                             xy_idx(pos.x + delta_x, pos.y + delta_y)]) # {}
         IN IF stops THEN MovePlayer(w, entity, delta_x, delta_y)
            ELSE MoveLoop(MovePlayer(w, entity, delta_x, delta_y), Tail(todo),
                          delta_x, delta_y)

try_move_player(w, delta_x, delta_y) ==
    MoveLoop(w,
             SortedSeq({e \in w.alive : /\ e \in w.players
                                        /\ Has(w.positions, e)
                                        /\ Has(w.viewsheds, e)}),
             delta_x, delta_y)

get_item(w) ==
    LET here == {e \in w.alive : /\ e \in w.items
                                 /\ Has(w.positions, e)
                                 /\ w.positions[e].x = w.player_pos.x
                                 /\ w.positions[e].y = w.player_pos.y}
    IN IF here = {} THEN w
       ELSE [w EXCEPT !.wants_pickup =
                          Insert(@, w.player_entity,
                                 [collected_by |-> w.player_entity, item |-> MaxOf(here)])]

try_next_level(w) == w.map.tiles[xy_idx(w.player_pos.x, w.player_pos.y)] = "DownStairs"

skip_turn(w) ==
    LET viewshed == w.viewsheds[w.player_entity]
        can_heal == \A tile \in viewshed.visible_tiles :
                        SeqToSet(w.map.tile_content[xy_idx(tile.x, tile.y)])
                            \cap w.monsters = {}
    IN IF can_heal
       THEN [w EXCEPT !.combat_stats[w.player_entity].hp =
                          Min(@ + 1, w.combat_stats[w.player_entity].max_hp)]
       ELSE w

RunState(name) == [name |-> name, range |-> 0, item |-> 0, menu_selection |-> "NewGame"]

MoveKeys ==
    [Left |-> <<-1, 0>>, Right |-> <<1, 0>>, Up |-> <<0, -1>>, Down |-> <<0, 1>>,
     Numpad9 |-> <<1, -1>>, Numpad7 |-> <<-1, -1>>, Numpad1 |-> <<-1, 1>>,
     Numpad3 |-> <<1, 1>>]

Keys == (DOMAIN MoveKeys) \cup {"NoKey", "G", "I", "D", "R", "Period", "Numpad5",
                                "Escape", "Other"}

\* player_input: the world and the run state it returns
player_input(w, key) ==
    IF key = "NoKey" THEN [ecs |-> w, next |-> RunState("AwaitingInput")]
    ELSE IF key \in DOMAIN MoveKeys
    THEN [ecs |-> try_move_player(w, MoveKeys[key][1], MoveKeys[key][2]),
          next |-> RunState("PlayerTurn")]
    ELSE IF key = "G" THEN [ecs |-> get_item(w), next |-> RunState("PlayerTurn")]
    ELSE IF key = "I" THEN [ecs |-> w, next |-> RunState("ShowInventory")]
    ELSE IF key = "D" THEN [ecs |-> w, next |-> RunState("ShowDropItem")]
    ELSE IF key = "R" THEN [ecs |-> w, next |-> RunState("ShowRemoveItem")]
    ELSE IF key = "Period"
    THEN [ecs |-> w,
          next |-> IF try_next_level(w) THEN RunState("NextLevel") ELSE RunState("PlayerTurn")]
    ELSE IF key = "Numpad5" THEN [ecs |-> skip_turn(w), next |-> RunState("PlayerTurn")]
    ELSE IF key = "Escape" THEN [ecs |-> w, next |-> RunState("SaveGame")]
    ELSE [ecs |-> w, next |-> RunState("AwaitingInput")]

(***************************************************************************)
(* The menus (gui): what a frame of a menu can answer.                     *)
(***************************************************************************)
\* the items the inventory and drop menus list: the player's backpack
BackpackOf(w, owner) ==
    {i \in DOMAIN w.backpack : w.backpack[i].owner = owner}

\* the items the remove menu lists: what the player has equipped
EquippedBy(w, owner) ==
    {i \in DOMAIN w.equipped : w.equipped[i].owner = owner}

\* the tiles ranged_target lets the player pick
TargetableTiles(w, range) ==
    {p \in w.viewsheds[w.player_entity].visible_tiles :
        DistSq(w.player_pos, p) <= range * range}

(***************************************************************************)
(* Save and load (saveload_system.rs).  The file holds, for the marked     *)
(* entities, the component types the two macros list, and the map copy the *)
(* helper entity carries.  Loaded entities keep their ids: the model does  *)
(* not rename them.                                                        *)
(***************************************************************************)
NoFile == [exists |-> FALSE]

NextEntity(w) == MaxOf(w.alive \cup {0}) + 1

Keep(store, S) == [x \in (DOMAIN store) \cap S |-> store[x]]

Serialized(w, savehelper) ==
    LET saved == w.marked \cup {savehelper}
    IN [exists |-> TRUE,
        entities |-> saved,
        positions |-> Keep(w.positions, saved),
        players |-> w.players \cap saved,
        viewsheds |-> Keep(w.viewsheds, saved),
        monsters |-> w.monsters \cap saved,
        blocks_tile |-> w.blocks_tile \cap saved,
        combat_stats |-> Keep(w.combat_stats, saved),
        suffer_damage |-> Keep(w.suffer_damage, saved),
        wants_to_melee |-> Keep(w.wants_to_melee, saved),
        items |-> w.items \cap saved,
        consumables |-> w.consumables \cap saved,
        ranged |-> Keep(w.ranged, saved),
        inflict_damage |-> Keep(w.inflict_damage, saved),
        aoe |-> Keep(w.aoe, saved),
        confusion |-> Keep(w.confusion, saved),
        healing |-> Keep(w.healing, saved),
        backpack |-> Keep(w.backpack, saved),
        wants_pickup |-> Keep(w.wants_pickup, saved),
        wants_use_item |-> Keep(w.wants_use_item, saved),
        wants_drop |-> Keep(w.wants_drop, saved),
        helper |-> Insert(NoStore, savehelper, w.map)]

\* save_game leaves the world as it was: the helper is created and deleted
save_file(w) == Serialized(w, NextEntity(w))

save_game(w) ==
    LET savehelper == NextEntity(w)
        withHelper == [w EXCEPT !.alive = @ \cup {savehelper},
                                !.marked = @ \cup {savehelper},
                                !.helper = Insert(@, savehelper, w.map)]
    IN DeleteEntities(withHelper, {savehelper})

Deserialized(w, file) ==
    [DeleteEntities(w, w.alive) EXCEPT
        !.alive = file.entities,
        !.marked = file.entities,
        !.positions = file.positions,
        !.players = file.players,
        !.viewsheds = file.viewsheds,
        !.monsters = file.monsters,
        !.blocks_tile = file.blocks_tile,
        !.combat_stats = file.combat_stats,
        !.suffer_damage = file.suffer_damage,
        !.wants_to_melee = file.wants_to_melee,
        !.items = file.items,
        !.consumables = file.consumables,
        !.ranged = file.ranged,
        !.inflict_damage = file.inflict_damage,
        !.aoe = file.aoe,
        !.confusion = file.confusion,
        !.healing = file.healing,
        !.backpack = file.backpack,
        !.wants_pickup = file.wants_pickup,
        !.wants_use_item = file.wants_use_item,
        !.wants_drop = file.wants_drop,
        !.helper = file.helper]

\* RestoreMap without the reset of tile_content
RestoreMapKeepContent(w) ==
    IF DOMAIN w.helper = {} THEN w
    ELSE [w EXCEPT !.map = w.helper[MaxOf(DOMAIN w.helper)]]

RestoreMap(w) ==
    IF DOMAIN w.helper = {} THEN w
    ELSE [w EXCEPT !.map = [w.helper[MaxOf(DOMAIN w.helper)]
                               EXCEPT !.tile_content = [idx \in TileIdx |-> <<>>]]]

RestorePlayer(w) ==
    LET found == {e \in w.alive : e \in w.players /\ Has(w.positions, e)}
    IN IF found = {} THEN w
       ELSE [w EXCEPT !.player_pos = Point(w.positions[MaxOf(found)].x,
                                           w.positions[MaxOf(found)].y),
                      !.player_entity = MaxOf(found)]

load_game(w, file) ==
    LET loaded == RestorePlayer(RestoreMap(Deserialized(w, file)))
    IN DeleteEntities(loaded, DOMAIN loaded.helper)

delete_save == NoFile

(***************************************************************************)
(* The world after main(): the map, the player, the monsters and items of  *)
(* the room.                                                               *)
(***************************************************************************)
ViewRange == 2

ScrollRange == 2

AoeRadius == 1

MonsterHp == 2

\* what the generator and the spawner hand over: the room, where the player
\* and the monsters stand, and the items lying in the room
Scenarios ==
    { \* three pieces of equipment, two of them for the same slot
      [room |-> "closet", player |-> Point(1, 1), monsters |-> NoStore,
       items |-> [i \in {4, 5, 6} |->
                    IF i = 4 THEN [kind |-> "dagger", at |-> Point(1, 1)]
                    ELSE IF i = 5 THEN [kind |-> "sword", at |-> Point(2, 1)]
                    ELSE [kind |-> "shield", at |-> Point(1, 1)]]],
      \* an area scroll and two monsters in a row
      [room |-> "corridor", player |-> Point(1, 1),
       monsters |-> [m \in {2, 3} |-> IF m = 2 THEN Point(3, 1) ELSE Point(2, 1)],
       items |-> [i \in {4} |-> [kind |-> "fireball", at |-> Point(1, 1)]]],
      \* a potion and a monster
      [room |-> "corridor", player |-> Point(1, 1),
       monsters |-> [m \in {2} |-> Point(3, 1)],
       items |-> [i \in {4} |-> [kind |-> "potion", at |-> Point(1, 1)]]],
      \* a confusion scroll and a monster
      [room |-> "corridor", player |-> Point(1, 1),
       monsters |-> [m \in {2} |-> Point(3, 1)],
       items |-> [i \in {5} |-> [kind |-> "confusion", at |-> Point(1, 1)]]],
      \* two monsters in a hall
      [room |-> "hall", player |-> Point(1, 1),
       monsters |-> [m \in {2, 3} |-> IF m = 2 THEN Point(3, 2) ELSE Point(3, 1)],
       items |-> NoStore] }

OfKind(sc, kinds) == {i \in DOMAIN sc.items : sc.items[i].kind \in kinds}

With(S, v) == [e \in S |-> v]

NewViewshed == [visible_tiles |-> {}, range |-> ViewRange, dirty |-> TRUE]

NewMap(room) ==
    [tiles |-> RoomTiles(room),
     blocked |-> [idx \in TileIdx |-> FALSE],
     tile_content |-> [idx \in TileIdx |-> <<>>],
     visible_tiles |-> [idx \in TileIdx |-> FALSE],
     revealed_tiles |-> [idx \in TileIdx |-> FALSE]]

Spawned(sc, amount) ==
    [alive |-> {PlayerId} \cup DOMAIN sc.monsters \cup DOMAIN sc.items,
     marked |-> {PlayerId} \cup DOMAIN sc.monsters \cup DOMAIN sc.items,
     players |-> {PlayerId},
     monsters |-> DOMAIN sc.monsters,
     items |-> DOMAIN sc.items,
     blocks_tile |-> DOMAIN sc.monsters,
     consumables |-> OfKind(sc, {"potion", "missile", "fireball", "confusion"}),
     positions |-> [e \in {PlayerId} \cup DOMAIN sc.monsters \cup DOMAIN sc.items |->
                      IF e = PlayerId THEN sc.player
                      ELSE IF e \in DOMAIN sc.monsters THEN sc.monsters[e]
                      ELSE sc.items[e].at],
     viewsheds |-> With({PlayerId} \cup DOMAIN sc.monsters, NewViewshed),
     combat_stats |-> [e \in {PlayerId} \cup DOMAIN sc.monsters |->
                         IF e = PlayerId
                         THEN [max_hp |-> PlayerMaxHp, hp |-> PlayerMaxHp,
                               defense |-> 0, power |-> 1]
                         ELSE [max_hp |-> MonsterHp, hp |-> MonsterHp,
                               defense |-> 0, power |-> 1]],
     wants_to_melee |-> NoStore,
     suffer_damage |-> NoStore,
     healing |-> With(OfKind(sc, {"potion"}), amount),
     inflict_damage |-> With(OfKind(sc, {"missile", "fireball"}), amount),
     aoe |-> With(OfKind(sc, {"fireball"}), AoeRadius),
     confusion |-> With(OfKind(sc, {"confusion"}), amount),
     ranged |-> With(OfKind(sc, {"missile", "fireball", "confusion"}), ScrollRange),
     equippable |-> [i \in OfKind(sc, {"dagger", "sword", "shield"}) |->
                       IF sc.items[i].kind = "shield" THEN "Shield" ELSE "Melee"],
     equipped |-> NoStore,
     backpack |-> NoStore,
     wants_pickup |-> NoStore,
     wants_use_item |-> NoStore,
     wants_drop |-> NoStore,
     wants_remove |-> NoStore,
     helper |-> NoStore,
     killed |-> {},
     map |-> NewMap(sc.room),
     player_pos |-> sc.player,
     player_entity |-> PlayerId]

Init ==
    /\ \E sc \in Scenarios, amount \in 1..MaxAmount : ecs = Spawned(sc, amount)
    /\ runstate = [RunState("MainMenu") EXCEPT !.menu_selection = "NewGame"]
    /\ savefile = NoFile
    /\ pipeline_runs = 0

(***************************************************************************)
(* State::tick, one action per arm of the match on the run state.  Every   *)
(* frame outside the main menu first deletes the dead; a dead player ends  *)
(* the game.                                                               *)
(***************************************************************************)
Tiebreaks == {"low", "high"}

Playing == ~PlayerDead(ecs)

\* pipeline_runs: how many times the tick called run_systems
Ticked(runs) ==
    /\ pipeline_runs' = runs
    /\ UNCHANGED savefile

TickPipeline(name, next) ==
    /\ runstate.name = name
    /\ Playing
    /\ \E tiebreak \in Tiebreaks :
          ecs' = maintain(run_systems(delete_the_dead(ecs), runstate.name, tiebreak))
    /\ runstate' = RunState(next)
    /\ Ticked(1)

TickPreRun == TickPipeline("PreRun", "AwaitingInput")

\* a faulty variant: the player's turn hands back to the input
TickPlayerTurnToInput == TickPipeline("PlayerTurn", "AwaitingInput")

TickPlayerTurn == TickPipeline("PlayerTurn", "MonsterTurn")

TickMonsterTurn == TickPipeline("MonsterTurn", "AwaitingInput")

TickAwaitingInput ==
    /\ runstate.name = "AwaitingInput"
    /\ Playing
    /\ \E key \in Keys :
          LET result == player_input(delete_the_dead(ecs), key)
          IN /\ ecs' = result.ecs
             /\ runstate' = result.next
    /\ Ticked(0)

MenuCancel(name) ==
    /\ runstate.name = name
    /\ Playing
    /\ ecs' = delete_the_dead(ecs)
    /\ runstate' = RunState("AwaitingInput")
    /\ Ticked(0)

MenuNoResponse(name) ==
    /\ runstate.name = name
    /\ Playing
    /\ ecs' = delete_the_dead(ecs)
    /\ UNCHANGED runstate
    /\ Ticked(0)

\* a faulty variant: a ranged item is used at once, without a target
TickShowInventoryNoTargeting ==
    \/ MenuCancel("ShowInventory")
    \/ MenuNoResponse("ShowInventory")
    \/ /\ runstate.name = "ShowInventory"
       /\ Playing
       /\ \E item_entity \in BackpackOf(delete_the_dead(ecs), ecs.player_entity) :
             ecs' = [delete_the_dead(ecs) EXCEPT !.wants_use_item =
                        Insert(@, ecs.player_entity,
                               [item |-> item_entity, target |-> {}])]
       /\ runstate' = RunState("PlayerTurn")
       /\ Ticked(0)

TickShowInventory ==
    \/ MenuCancel("ShowInventory")
    \/ MenuNoResponse("ShowInventory")
    \/ /\ runstate.name = "ShowInventory"
       /\ Playing
       /\ \E item_entity \in BackpackOf(delete_the_dead(ecs), ecs.player_entity) :
             LET w == delete_the_dead(ecs)
             IN IF Has(w.ranged, item_entity)
                THEN /\ ecs' = w
                     /\ runstate' = [RunState("ShowTargeting") EXCEPT
                                        !.range = w.ranged[item_entity],
                                        !.item = item_entity]
                ELSE /\ ecs' = [w EXCEPT !.wants_use_item =
                                   Insert(@, w.player_entity,
                                          [item |-> item_entity, target |-> {}])]
                     /\ runstate' = RunState("PlayerTurn")
       /\ Ticked(0)

TickShowDropItem ==
    \/ MenuCancel("ShowDropItem")
    \/ MenuNoResponse("ShowDropItem")
    \/ /\ runstate.name = "ShowDropItem"
       /\ Playing
       /\ \E item_entity \in BackpackOf(delete_the_dead(ecs), ecs.player_entity) :
             ecs' = [delete_the_dead(ecs) EXCEPT !.wants_drop =
                        Insert(@, ecs.player_entity, [item |-> item_entity])]
       /\ runstate' = RunState("PlayerTurn")
       /\ Ticked(0)

TickShowRemoveItem ==
    \/ MenuCancel("ShowRemoveItem")
    \/ MenuNoResponse("ShowRemoveItem")
    \/ /\ runstate.name = "ShowRemoveItem"
       /\ Playing
       /\ \E item_entity \in EquippedBy(delete_the_dead(ecs), ecs.player_entity) :
             ecs' = [delete_the_dead(ecs) EXCEPT !.wants_remove =
                        Insert(@, ecs.player_entity, [item |-> item_entity])]
       /\ runstate' = RunState("PlayerTurn")
       /\ Ticked(0)

TickShowTargeting ==
    \/ MenuCancel("ShowTargeting")
    \/ MenuNoResponse("ShowTargeting")
    \/ /\ runstate.name = "ShowTargeting"
       /\ Playing
       /\ \E target \in TargetableTiles(delete_the_dead(ecs), runstate.range) :
             ecs' = [delete_the_dead(ecs) EXCEPT !.wants_use_item =
                        Insert(@, ecs.player_entity,
                               [item |-> runstate.item, target |-> {target}])]
       /\ runstate' = RunState("PlayerTurn")
       /\ Ticked(0)

MenuSelections == {"NewGame", "LoadGame", "Quit"}

MainMenuNoSelection ==
    /\ runstate.name = "MainMenu"
    /\ \E selected \in MenuSelections :
          /\ selected = "LoadGame" => savefile.exists
          /\ runstate' = [RunState("MainMenu") EXCEPT !.menu_selection = selected]
    /\ UNCHANGED ecs
    /\ Ticked(0)

\* a new game is started only while no save file exists
MainMenuNewGame ==
    /\ runstate.name = "MainMenu"
    /\ ~savefile.exists
    /\ runstate' = RunState("PreRun")
    /\ UNCHANGED ecs
    /\ Ticked(0)

MainMenuLoadGame ==
    /\ runstate.name = "MainMenu"
    /\ savefile.exists
    /\ ecs' = load_game(ecs, savefile)
    /\ runstate' = RunState("AwaitingInput")
    /\ savefile' = delete_save
    /\ pipeline_runs' = 0

TickSaveGame ==
    /\ runstate.name = "SaveGame"
    /\ Playing
    /\ savefile' = save_file(delete_the_dead(ecs))
    /\ ecs' = save_game(delete_the_dead(ecs))
    /\ runstate' = [RunState("MainMenu") EXCEPT !.menu_selection = "LoadGame"]
    /\ pipeline_runs' = 0

Play ==
    \/ TickPreRun
    \/ TickAwaitingInput
    \/ TickPlayerTurn
    \/ TickMonsterTurn
    \/ TickShowInventory
    \/ TickShowDropItem
    \/ TickShowRemoveItem
    \/ TickShowTargeting
    \/ MainMenuNoSelection
    \/ MainMenuNewGame
    \/ TickSaveGame

Next == Play \/ MainMenuLoadGame

Spec == Init /\ [][Next]_vars

\* the same program while no saved game is loaded
SpecPlay == Init /\ [][Play]_vars

(***************************************************************************)
(* Properties.                                                             *)
(***************************************************************************)
PassStates == {"PreRun", "PlayerTurn", "MonsterTurn"}

LiveItems == ecs.items \cap ecs.alive

IntentStores == <<ecs.wants_pickup, ecs.wants_use_item, ecs.wants_drop, ecs.wants_remove>>

\* what the tick of a pass state makes of the world
ThePass(tiebreak) == maintain(run_systems(delete_the_dead(ecs), runstate.name, tiebreak))

Locations(w, i) ==
    {k \in {"Position", "InBackpack", "Equipped"} :
        \/ k = "Position" /\ Has(w.positions, i)
        \/ k = "InBackpack" /\ Has(w.backpack, i)
        \/ k = "Equipped" /\ Has(w.equipped, i)}

TickOrder ==
    [][/\ runstate.name = "PreRun" => runstate'.name = "AwaitingInput"
       /\ runstate.name = "PlayerTurn" => runstate'.name = "MonsterTurn"
       /\ runstate.name = "MonsterTurn" => runstate'.name = "AwaitingInput"
       /\ runstate.name \in PassStates =>
              pipeline_runs' = 1 /\ \E tiebreak \in Tiebreaks : ecs' = ThePass(tiebreak)
       /\ runstate.name \notin PassStates => pipeline_runs' = 0]_vars

\* input is awaited again after a monster pass in which the player was hit
MonsterPassDone ==
    /\ runstate.name = "AwaitingInput"
    /\ pipeline_runs = 1
    /\ ecs.combat_stats[PlayerId].hp < PlayerMaxHp

\* C3: when a pass has ended, no WantsToPickupItem, WantsToUseItem,
\* WantsToDropItem or WantsToRemoveItem is left on any entity.
IntentsCleared ==
    pipeline_runs = 1 => \A i \in 1..4 : DOMAIN IntentStores[i] = {}

\* item ownership, hit points and component sets of a world
Census(w) ==
    [ownership |-> [i \in w.items \cap w.alive |->
                      <<Keep(w.positions, {i}), Keep(w.backpack, {i}), Keep(w.equipped, {i})>>],
     hp |-> [e \in DOMAIN w.combat_stats |-> w.combat_stats[e].hp],
     sets |-> [alive |-> w.alive, marked |-> w.marked, players |-> w.players,
               monsters |-> w.monsters, items |-> w.items,
               blocks_tile |-> w.blocks_tile, consumables |-> w.consumables,
               positions |-> DOMAIN w.positions, viewsheds |-> DOMAIN w.viewsheds,
               combat_stats |-> DOMAIN w.combat_stats,
               wants_to_melee |-> DOMAIN w.wants_to_melee,
               suffer_damage |-> DOMAIN w.suffer_damage,
               healing |-> DOMAIN w.healing, inflict_damage |-> DOMAIN w.inflict_damage,
               aoe |-> DOMAIN w.aoe, confusion |-> DOMAIN w.confusion,
               ranged |-> DOMAIN w.ranged, equippable |-> DOMAIN w.equippable,
               equipped |-> DOMAIN w.equipped, backpack |-> DOMAIN w.backpack,
               wants_pickup |-> DOMAIN w.wants_pickup,
               wants_use_item |-> DOMAIN w.wants_use_item,
               wants_drop |-> DOMAIN w.wants_drop,
               wants_remove |-> DOMAIN w.wants_remove]]

\* the damage an entity has pending
Pending(w, e) == IF Has(w.suffer_damage, e) THEN Sum(w.suffer_damage[e]) ELSE 0

\* a run of the pipeline in which the Monster AI is idle, so that no system
\* of the run produces an intent
IdleStates == PassStates \ {"MonsterTurn"}

RECURSIVE HitSum(_, _, _)
HitSum(w, attackers, e) ==
    IF attackers = {} THEN 0
    ELSE LET a == CHOOSE x \in attackers : TRUE
             hit == w.combat_stats[a].power - w.combat_stats[e].defense
         IN (IF w.wants_to_melee[a].target = e /\ hit > 0 THEN hit ELSE 0)
            + HitSum(w, attackers \ {a}, e)

MeleeHits(w, e) ==
    HitSum(w, {a \in DOMAIN w.wants_to_melee : Has(w.combat_stats, a)}, e)

\* the items the pass is asked to use
UsedItems(w) == {w.wants_use_item[u].item : u \in DOMAIN w.wants_use_item}

\* C5: when a pass has ended, every damage amount appended during it has been
\* subtracted from its entity's hp and no entity carries SufferDamage.
NoDamagePending == pipeline_runs = 1 => DOMAIN ecs.suffer_damage = {}

DamageResolved(tiebreak) ==
    LET start == delete_the_dead(ecs)
        fought == MapIndexingSystem(AfterMonsterAI(start, runstate.name, tiebreak))
    IN /\ ecs' = ThePass(tiebreak)
       /\ \A e \in DOMAIN ecs'.combat_stats :
              (\A i \in UsedItems(start) : ~Has(start.healing, i)) =>
                  ecs'.combat_stats[e].hp =
                      start.combat_stats[e].hp - Pending(start, e) - MeleeHits(fought, e)
       /\ \A e \in DOMAIN ecs'.suffer_damage :
              /\ runstate.name = "PlayerTurn"
              /\ \E i \in UsedItems(start) :
                    /\ Has(start.inflict_damage, i)
                    /\ ecs'.suffer_damage[e] = <<start.inflict_damage[i]>>

\* C5 as amended: a pass subtracts from each entity's hp the damage pending when
\* it starts and the melee hits of the pass, in the pass; the damage of an
\* InflictsDamage item used in the pass is the only SufferDamage left when the
\* pass ends, one entry per target, and it is subtracted by the next pass, the
\* MonsterTurn pass.
DamageTiming ==
    [][runstate.name \in PassStates =>
           \E tiebreak \in Tiebreaks : DamageResolved(tiebreak)]_vars

\* the PlayerTurn pass has ended and a monster, its hp untouched, carries the
\* damage of the item the player used
ItemDamagePending ==
    /\ runstate.name = "MonsterTurn"
    /\ pipeline_runs = 1
    /\ \E m \in ecs.monsters :
          Has(ecs.suffer_damage, m) /\ ecs.combat_stats[m].hp = MonsterHp

\* an effect of the item has been applied: a heal or damage that reached a
\* target, a confusion put on a target, an equip
EffectApplied(w, useitem) ==
    LET targets == Targets(w, useitem)
    IN \/ /\ Has(w.healing, useitem.item)
          /\ \E i \in 1..Len(targets) : Has(w.combat_stats, targets[i])
       \/ Has(w.inflict_damage, useitem.item) /\ targets # <<>>
       \/ Has(w.confusion, useitem.item) /\ targets # <<>>
       \/ Has(w.equippable, useitem.item) /\ targets # <<>>

ConsumedIffUsed(tiebreak) ==
    LET before == BeforeItemUse(delete_the_dead(ecs), runstate.name, tiebreak)
    IN /\ ecs' = ThePass(tiebreak)
       /\ \A u \in DOMAIN before.wants_use_item :
              LET useitem == before.wants_use_item[u]
              IN useitem.item \in before.alive =>
                    (useitem.item \notin ecs'.alive <=>
                        /\ useitem.item \in before.consumables
                        /\ EffectApplied(before, useitem))

\* C6: the pass deletes the item a WantsToUseItem names if and only if the
\* item is Consumable and one of its effects was applied.
ConsumeRule ==
    [][runstate.name \in PassStates =>
           \E tiebreak \in Tiebreaks : ConsumedIffUsed(tiebreak)]_vars

\* the world the Item Use system of the tick's pass starts from
BeforeUse(tiebreak) == BeforeItemUse(delete_the_dead(ecs), runstate.name, tiebreak)

Healed(tiebreak) ==
    LET start == delete_the_dead(ecs)
        before == BeforeUse(tiebreak)
    IN /\ ecs' = ThePass(tiebreak)
       /\ \A u \in DOMAIN before.wants_use_item :
              LET useitem == before.wants_use_item[u]
                  targets == Targets(before, useitem)
              IN Has(before.healing, useitem.item) =>
                    \A i \in 1..Len(targets) :
                        Has(before.combat_stats, targets[i]) =>
                            LET was == start.combat_stats[targets[i]]
                                now == ecs'.combat_stats[targets[i]]
                            IN /\ now.hp = Min(was.max_hp, was.hp + before.healing[useitem.item])
                               /\ now.hp <= now.max_hp
                               /\ now.hp >= was.hp

\* C7: the pass that uses an item with ProvidesHealing{amount} leaves each
\* target that has CombatStats with hp = min(max_hp, hp + amount), which is
\* neither above max_hp nor below the hp it had.
HealingClamped ==
    [][runstate.name \in PassStates => \E tiebreak \in Tiebreaks : Healed(tiebreak)]_vars

\* the pass is about to use a healing item on a player whose hp + amount
\* exceeds max_hp
HealAboutToClamp ==
    /\ runstate.name = "PlayerTurn"
    /\ \E u \in DOMAIN ecs.wants_use_item :
          LET item == ecs.wants_use_item[u].item
          IN /\ Has(ecs.healing, item)
             /\ ecs.combat_stats[u].hp < ecs.combat_stats[u].max_hp
             /\ ecs.combat_stats[u].hp + ecs.healing[item] > ecs.combat_stats[u].max_hp

\* the monsters the Monster AI visits
ActingMonsters(w) ==
    {e \in w.alive : Has(w.viewsheds, e) /\ e \in w.monsters /\ Has(w.positions, e)}

ConfusedSkip(tiebreak) ==
    LET start == delete_the_dead(ecs)
        acted == AfterMonsterAI(start, runstate.name, tiebreak)
    IN /\ ecs' = ThePass(tiebreak)
       /\ \A m \in ActingMonsters(start) \cap DOMAIN start.confusion :
              /\ start.confusion[m] >= 1
              /\ ~Has(acted.wants_to_melee, m)
              /\ acted.positions[m] = start.positions[m]
              /\ ecs'.positions[m] = ecs.positions[m]
              /\ IF start.confusion[m] > 1
                 THEN ecs'.confusion[m] = start.confusion[m] - 1
                 ELSE ~Has(ecs'.confusion, m)

\* C8: in a MonsterTurn pass a monster that carries Confusion with k turns
\* left (k >= 1) gets no WantsToMelee, keeps its Position and is left with
\* k - 1 turns, and with no Confusion when k = 1: Confusion{turns: N} costs it
\* the next N MonsterTurn passes and is gone when the N-th ends.
ConfusionCountdown ==
    [][runstate.name = "MonsterTurn" =>
           \E tiebreak \in Tiebreaks : ConfusedSkip(tiebreak)]_vars

\* a monster confused for two turns has sat out the first of them
ConfusionHalfSpent ==
    /\ runstate.name = "AwaitingInput"
    /\ pipeline_runs = 1
    /\ \E m \in ecs.monsters, i \in ecs.items :
          /\ Has(ecs.confusion, m) /\ Has(ecs.confusion, i)
          /\ ecs.confusion[i] = 2
          /\ ecs.confusion[m] = 1

EquipSwap(tiebreak) ==
    LET before == BeforeUse(tiebreak)
        owner == before.player_entity
    IN /\ ecs' = ThePass(tiebreak)
       /\ \A u \in DOMAIN before.wants_use_item :
              LET new == before.wants_use_item[u].item
                  old == {i \in DOMAIN before.equipped :
                             /\ i # new
                             /\ before.equipped[i].owner = owner
                             /\ before.equipped[i].slot = before.equippable[new]}
              IN Has(before.equippable, new) =>
                    /\ \A i \in old :
                           /\ ~Has(ecs'.equipped, i)
                           /\ Has(ecs'.backpack, i)
                           /\ ecs'.backpack[i] = [owner |-> owner]
                    /\ Has(ecs'.equipped, new)
                    /\ ecs'.equipped[new] = [owner |-> owner, slot |-> before.equippable[new]]
                    /\ ~Has(ecs'.backpack, new)
                    /\ Drop(ecs'.equipped, old \cup {new}) =
                           Drop(before.equipped, old \cup {new})

\* C9: the pass that uses an Equippable item B of slot S while the owner O
\* wears A in slot S leaves A not Equipped and InBackpack{owner: O}, B
\* Equipped{owner: O, slot: S} and not InBackpack; everything else that is
\* Equipped stays as it was.
EquipSwaps ==
    [][runstate.name \in PassStates => \E tiebreak \in Tiebreaks : EquipSwap(tiebreak)]_vars

\* the pass is about to equip an item while the player wears another in its
\* slot and a third in another slot
SwapAboutToHappen ==
    /\ runstate.name = "PlayerTurn"
    /\ \E u \in DOMAIN ecs.wants_use_item, a, c \in DOMAIN ecs.equipped :
          LET b == ecs.wants_use_item[u].item
          IN /\ Has(ecs.equippable, b) /\ Has(ecs.backpack, b)
             /\ a # b
             /\ ecs.equipped[a] = [owner |-> u, slot |-> ecs.equippable[b]]
             /\ ecs.equipped[c].slot # ecs.equippable[b]

\* the entities tile_content lists on the tiles of a set
Listed(w, tiles) == UNION {SeqToSet(w.map.tile_content[xy_idx(p.x, p.y)]) : p \in tiles}

AreaHit(tiebreak) ==
    LET before == BeforeUse(tiebreak)
    IN /\ ecs' = ThePass(tiebreak)
       /\ \A u \in DOMAIN before.wants_use_item :
              LET useitem == before.wants_use_item[u]
                  item == useitem.item
                  disc == field_of_view(CHOOSE p \in useitem.target : TRUE,
                                        before.aoe[item], before.map)
                  hit == Listed(before, disc)
              IN (useitem.target # {} /\ Has(before.aoe, item)) =>
                    /\ SeqToSet(Targets(before, useitem)) = hit
                    /\ Has(before.inflict_damage, item) =>
                           /\ \A e \in hit : /\ Has(ecs'.suffer_damage, e)
                                              /\ ecs'.suffer_damage[e] =
                                                     <<before.inflict_damage[item]>>
                           /\ DOMAIN ecs'.suffer_damage = hit
                    /\ Has(before.confusion, item) =>
                           /\ \A e \in hit : /\ Has(ecs'.confusion, e)
                                              /\ ecs'.confusion[e] = before.confusion[item]
                           /\ Drop(ecs'.confusion, hit) = Drop(before.confusion, hit)
                    /\ Has(before.healing, item) =>
                           \A e \in DOMAIN ecs'.combat_stats \ hit :
                               ecs'.combat_stats[e].hp = before.combat_stats[e].hp

\* C10: the pass that uses an item with AreaOfEffect{radius} on a tile T
\* applies each of the item's effects to every entity tile_content lists on a
\* tile of the field-of-view disc of that radius around T, and to no other
\* entity.
AreaOfEffectTargets ==
    [][runstate.name \in PassStates => \E tiebreak \in Tiebreaks : AreaHit(tiebreak)]_vars

\* the fireball has gone off: two monsters carry its damage, the player,
\* outside the disc, none
FireballHitBoth ==
    /\ runstate.name = "MonsterTurn"
    /\ pipeline_runs = 1
    /\ ~Has(ecs.suffer_damage, PlayerId)
    /\ \E m, n \in ecs.monsters :
          m # n /\ Has(ecs.suffer_damage, m) /\ Has(ecs.suffer_damage, n)

\* every component storage the save file lists, as loaded or saved
Persisted(w) ==
    [entities |-> w.marked,
     positions |-> w.positions, players |-> w.players, viewsheds |-> w.viewsheds,
     monsters |-> w.monsters, blocks_tile |-> w.blocks_tile,
     combat_stats |-> w.combat_stats, suffer_damage |-> w.suffer_damage,
     wants_to_melee |-> w.wants_to_melee, items |-> w.items,
     consumables |-> w.consumables, ranged |-> w.ranged,
     inflict_damage |-> w.inflict_damage, aoe |-> w.aoe,
     confusion |-> w.confusion, healing |-> w.healing, backpack |-> w.backpack,
     wants_pickup |-> w.wants_pickup, wants_use_item |-> w.wants_use_item,
     wants_drop |-> w.wants_drop]

\* a step of the main menu that loads the saved game
LoadStep == runstate.name = "MainMenu" /\ savefile.exists /\ runstate'.name = "AwaitingInput"

\* C11: loading the game that was just saved brings every persisted entity
\* back with the same components and values, Equipped and Equippable included,
\* and every entity reference names the same entity as before
SaveLoadRoundTrip ==
    [][LoadStep =>
          /\ Persisted(ecs') = Persisted(ecs)
          /\ ecs'.equippable = ecs.equippable
          /\ ecs'.equipped = ecs.equipped]_vars

\* the components of the save file's list do come back as they were saved
SaveLoadListed == [][LoadStep => Persisted(ecs') = Persisted(ecs)]_vars

\* a step that writes the save file
SaveStep == runstate.name = "SaveGame" /\ runstate'.name = "MainMenu"

\* C12: right after load_game tile_content has width * height entries, all of
\* them empty, and no entity carries SerializationHelper; after save_game no
\* entity carries SerializationHelper either
LoadResetsIndex ==
    [][/\ LoadStep =>
            /\ Cardinality(DOMAIN ecs'.map.tile_content) = width * height
            /\ \A idx \in DOMAIN ecs'.map.tile_content : ecs'.map.tile_content[idx] = <<>>
            /\ DOMAIN ecs'.helper = {}
       /\ SaveStep => DOMAIN ecs'.helper = {}]_vars

\* a game was loaded: entities have positions and nothing is indexed yet
JustLoaded ==
    /\ runstate.name = "AwaitingInput"
    /\ ~savefile.exists
    /\ DOMAIN ecs.positions # {}
    /\ \A idx \in TileIdx : ecs.map.tile_content[idx] = <<>>
    /\ \E idx \in TileIdx : ecs.map.blocked[idx]

\* the world the Monster AI system is handed in the pass about to run
BeforeMonsterAI == VisibilitySystem(delete_the_dead(ecs))

\* C13: in a pass whose run state is not MonsterTurn the Monster AI system
\* changes nothing: Position, blocked, Viewshed, WantsToMelee and Confusion
\* leave it as they entered it
MonsterAIIdle ==
    (runstate.name \in PassStates /\ runstate.name # "MonsterTurn") =>
        \A tiebreak \in Tiebreaks :
            LET after == MonsterAI(BeforeMonsterAI, runstate.name, tiebreak)
            IN /\ after.positions = BeforeMonsterAI.positions
               /\ after.map.blocked = BeforeMonsterAI.map.blocked
               /\ after.viewsheds = BeforeMonsterAI.viewsheds
               /\ after.wants_to_melee = BeforeMonsterAI.wants_to_melee
               /\ after.confusion = BeforeMonsterAI.confusion
               /\ after = BeforeMonsterAI

\* a PlayerTurn pass is about to run in which a confused monster would have
\* spent a turn of its confusion
MonsterHeldBack ==
    /\ runstate.name = "PlayerTurn"
    /\ MonsterAI(BeforeMonsterAI, "MonsterTurn", "low") # BeforeMonsterAI
    /\ \E m \in BeforeMonsterAI.monsters : Has(BeforeMonsterAI.confusion, m)

\* the monsters of the Monster AI system's join that carry no Confusion
Unconfused(w) ==
    {m \in w.monsters \cap w.alive :
        Has(w.viewsheds, m) /\ Has(w.positions, m) /\ ~Has(w.confusion, m)}

\* on the player's tile or one of its eight neighbours
Adjacent(w, m) ==
    /\ w.positions[m].x - w.player_pos.x \in -1..1
    /\ w.positions[m].y - w.player_pos.y \in -1..1

\* C14: in a MonsterTurn pass every unconfused monster on the player's tile or
\* one of its eight neighbours leaves the Monster AI system with
\* WantsToMelee{target: player} and the Position it had; an unconfused monster
\* that is neither adjacent nor sees the player's tile gets no intent and
\* does not move
MeleeWhenAdjacent ==
    runstate.name = "MonsterTurn" =>
        \A tiebreak \in Tiebreaks :
            LET before == BeforeMonsterAI
                after == MonsterAI(before, "MonsterTurn", tiebreak)
            IN \A m \in Unconfused(before) :
                  /\ Adjacent(before, m) =>
                        /\ Has(after.wants_to_melee, m)
                        /\ after.wants_to_melee[m] = [target |-> before.player_entity]
                        /\ after.positions[m] = before.positions[m]
                  /\ (/\ ~Adjacent(before, m)
                      /\ before.player_pos \notin before.viewsheds[m].visible_tiles) =>
                        /\ ~Has(after.wants_to_melee, m)
                        /\ after.positions[m] = before.positions[m]

\* a MonsterTurn pass is about to run with one monster next to the
\* player and another that neither touches nor sees the player
MonstersNearAndFar ==
    /\ runstate.name = "MonsterTurn"
    /\ \E m \in Unconfused(BeforeMonsterAI) :
          Adjacent(BeforeMonsterAI, m)
    /\ \E m \in Unconfused(BeforeMonsterAI) :
          /\ ~Adjacent(BeforeMonsterAI, m)
          /\ BeforeMonsterAI.player_pos \notin BeforeMonsterAI.viewsheds[m].visible_tiles

\* the world a monster finds when its turn in the Monster AI system's join
\* comes: the monsters before it have acted
AtTurnOf(m, tiebreak) ==
    MonsterLoop(BeforeMonsterAI,
                SortedSeq({e \in BeforeMonsterAI.alive :
                              /\ Has(BeforeMonsterAI.viewsheds, e)
                              /\ e \in BeforeMonsterAI.monsters
                              /\ Has(BeforeMonsterAI.positions, e)
                              /\ e < m}),
                tiebreak)

\* unconfused, not adjacent to the player and with the player's tile in view
Chasing(w, m) ==
    /\ m \in Unconfused(w)
    /\ ~Adjacent(w, m)
    /\ w.player_pos \in w.viewsheds[m].visible_tiles

\* the path the monster asks for
PathOf(w, m, tiebreak) ==
    a_star_search(xy_idx(w.positions[m].x, w.positions[m].y),
                  xy_idx(w.player_pos.x, w.player_pos.y), w.map.blocked, tiebreak)

\* C15: an unconfused monster that is not adjacent and sees the player moves
\* to step 1 of a successful path of more than one step: the tile it leaves
\* is unblocked, the tile it enters is blocked and its viewshed is dirty; when
\* the path fails or has a single step its Position, the blocked bits and its
\* dirty flag stay as they were
ChaseStep ==
    runstate.name = "MonsterTurn" =>
        \A tiebreak \in Tiebreaks :
            \A m \in Unconfused(BeforeMonsterAI) :
                LET w == AtTurnOf(m, tiebreak)
                    after == MonsterAct(w, m, tiebreak)
                    path == PathOf(w, m, tiebreak)
                    old == w.positions[m]
                IN Chasing(w, m) =>
                     IF path.success /\ Len(path.steps) > 1
                     THEN /\ after.positions[m] = idx_point(path.steps[2])
                          /\ ~after.map.blocked[xy_idx(old.x, old.y)]
                          /\ after.map.blocked[path.steps[2]]
                          /\ after.viewsheds[m].dirty
                          /\ MonsterAI(BeforeMonsterAI, "MonsterTurn", tiebreak).positions[m]
                                = idx_point(path.steps[2])
                     ELSE /\ after.positions[m] = old
                          /\ after.map.blocked = w.map.blocked
                          /\ after.viewsheds[m].dirty = w.viewsheds[m].dirty

\* a MonsterTurn pass is about to run in which a monster with a clean viewshed
\* has a path of more than one step to the player it sees
MonsterWillStep ==
    /\ runstate.name = "MonsterTurn"
    /\ \E m \in Unconfused(BeforeMonsterAI) :
          LET w == AtTurnOf(m, "low")
          IN /\ Chasing(w, m)
             /\ PathOf(w, m, "low").success
             /\ Len(PathOf(w, m, "low").steps) > 1
             /\ ~w.viewsheds[m].dirty
             /\ w.map.blocked[xy_idx(w.positions[m].x, w.positions[m].y)]

\* a pass that would index the map before the monsters act
IndexFirstPass(tiebreak) ==
    maintain(maintain(ItemDropSystem(ItemUseSystem(InventorySystem(
        DamageSystem(MeleeCombatSystem(
            MonsterAI(MapIndexingSystem(BeforeMonsterAI), runstate.name, tiebreak))))))))

\* C16 as claimed: in every pass the Map Indexing system runs before the
\* Monster AI system reads blocked and before the Item Use system reads
\* tile_content
IndexingBeforeAI ==
    [][runstate.name \in PassStates =>
          \E tiebreak \in Tiebreaks : ecs' = IndexFirstPass(tiebreak)]_vars

\* what the Map Indexing system would compute from a world
FreshIndex(w) == MapIndexingSystem(w).map

\* C16 as the code has it: in every pass the Map Indexing system runs after
\* the Monster AI system and before the Item Use system; the pathfinding reads
\* the blocked bits the previous pass left, and the Item Use system reads the
\* tile_content indexed from the positions the monsters moved to
IndexingAfterAI ==
    runstate.name \in PassStates =>
        \A tiebreak \in Tiebreaks :
            LET moved == AfterMonsterAI(delete_the_dead(ecs), runstate.name, tiebreak)
            IN /\ BeforeMonsterAI.map.blocked = ecs.map.blocked
               /\ BeforeUse(tiebreak).map.tile_content = FreshIndex(moved).tile_content
               /\ BeforeUse(tiebreak).map.blocked = FreshIndex(moved).blocked

\* a MonsterTurn pass is about to run in which a monster that chases the
\* player reads blocked bits that no longer match the positions
StaleBlockedRead ==
    /\ runstate.name = "MonsterTurn"
    /\ BeforeMonsterAI.map.blocked # FreshIndex(BeforeMonsterAI).blocked
    /\ \E m \in Unconfused(BeforeMonsterAI) : Chasing(BeforeMonsterAI, m)

\* the entities with a Position whose viewshed is dirty
DirtyViewers(w) == {e \in DOMAIN w.viewsheds : Has(w.positions, e) /\ w.viewsheds[e].dirty}

\* the Visibility system of the pass about to run leaves every clean viewshed
\* as it is and recomputes every dirty one
OnlyDirtyRecomputed ==
    LET w == delete_the_dead(ecs)
    IN /\ \A e \in DOMAIN w.viewsheds \ DirtyViewers(w) :
             BeforeMonsterAI.viewsheds[e] = w.viewsheds[e]
       /\ DirtyViewers(w) = {} =>
             /\ BeforeMonsterAI.map.visible_tiles = w.map.visible_tiles
             /\ BeforeMonsterAI.map.revealed_tiles = w.map.revealed_tiles
       /\ DirtyViewers(BeforeMonsterAI) = {}

\* C17 as claimed: a viewshed is recomputed only when it is dirty, and when a
\* pass ends no entity with a Position has a dirty viewshed
NoDirtyAfterPass ==
    [][runstate.name \in PassStates =>
          /\ OnlyDirtyRecomputed
          /\ DirtyViewers(ecs') = {}]_vars

\* C17 as the code has it: a viewshed is recomputed only when it is dirty and
\* none is dirty when the Visibility system is done; when the pass ends the
\* dirty viewsheds are those of the monsters that moved in this pass, which
\* only a MonsterTurn pass has
DirtyOnlyMovedMonsters ==
    [][runstate.name \in PassStates =>
          /\ OnlyDirtyRecomputed
          /\ DirtyViewers(ecs') =
                {m \in ecs'.monsters :
                    /\ Has(ecs'.positions, m) /\ Has(ecs'.viewsheds, m)
                    /\ ecs'.positions[m] # delete_the_dead(ecs).positions[m]}
          /\ runstate.name # "MonsterTurn" => DirtyViewers(ecs') = {}]_vars

\* a MonsterTurn pass has ended and left the viewshed of a monster dirty
MonsterLeftDirty ==
    /\ runstate.name = "AwaitingInput"
    /\ pipeline_runs > 0
    /\ DirtyViewers(ecs) \cap ecs.monsters # {}

\* every point a field-of-view sweep of that range around a centre can return,
\* in the map or not
SweepPoints(center, range) ==
    {p \in {Point(px, py) : px \in (center.x - range)..(center.x + range),
                            py \in (center.y - range)..(center.y + range)} :
        DistSq(center, p) <= range * range}

\* C18: whatever points the sweep returns, the tiles the Visibility system
\* keeps in a recomputed viewshed have 0 <= x < width and 0 <= y < height,
\* and so the tile index derived from each of them is valid
RetainedInMap ==
    runstate.name \in PassStates =>
        \A e \in DirtyViewers(delete_the_dead(ecs)) :
            \A p \in SweepPoints(delete_the_dead(ecs).positions[e],
                                 delete_the_dead(ecs).viewsheds[e].range) :
                VisibleRetain(p) =>
                    /\ 0 <= p.x /\ p.x < width
                    /\ 0 <= p.y /\ p.y < height
                    /\ xy_idx(p.x, p.y) \in TileIdx

\* the same with the row below the map left out of the sweep
RetainedInMapAbove ==
    runstate.name \in PassStates =>
        \A e \in DirtyViewers(delete_the_dead(ecs)) :
            \A p \in SweepPoints(delete_the_dead(ecs).positions[e],
                                 delete_the_dead(ecs).viewsheds[e].range) :
                (VisibleRetain(p) /\ p.y # height) => xy_idx(p.x, p.y) \in TileIdx

\* the players whose viewshed the pass about to run recomputes
DirtyPlayers == DirtyViewers(delete_the_dead(ecs)) \cap delete_the_dead(ecs).players

\* C19: on every step that is not a load a revealed tile stays revealed; and
\* when a pass recomputes the player's viewshed, the map's visible_tiles are
\* true exactly for the tiles of the player's fresh visible set
RevealedStaysVisibleFresh ==
    [][/\ ~LoadStep =>
            \A idx \in TileIdx : ecs.map.revealed_tiles[idx] => ecs'.map.revealed_tiles[idx]
       /\ runstate.name \in PassStates =>
            \A e \in DirtyPlayers :
                /\ ecs'.viewsheds[e].visible_tiles =
                      field_of_view(ecs'.positions[e], ecs'.viewsheds[e].range, ecs'.map)
                /\ \A idx \in TileIdx :
                      ecs'.map.visible_tiles[idx] <=>
                          idx_point(idx) \in ecs'.viewsheds[e].visible_tiles
                /\ \A idx \in TileIdx :
                      ecs'.map.visible_tiles[idx] => ecs'.map.revealed_tiles[idx]]_vars

\* the player has walked on: a tile seen earlier is revealed and out of sight
RevealedOutOfSight ==
    /\ runstate.name = "MonsterTurn"
    /\ pipeline_runs > 0
    /\ \E idx \in TileIdx : ecs.map.revealed_tiles[idx] /\ ~ecs.map.visible_tiles[idx]

\* the world with the dirty flag cleared on every viewshed that is not a
\* player's, so that the Visibility system recomputes the players' only
PlayersOnlyDirty(w) ==
    [w EXCEPT !.viewsheds = [e \in DOMAIN @ |->
                               IF e \in w.players THEN @[e]
                               ELSE [@[e] EXCEPT !.dirty = FALSE]]]

\* C20: recomputing the viewshed of an entity that has no Player marker
\* leaves the map's visible_tiles and revealed_tiles as they were
OthersLeaveMapAlone ==
    runstate.name \in PassStates =>
        LET w == delete_the_dead(ecs)
        IN /\ BeforeMonsterAI.map.visible_tiles =
                 VisibilitySystem(PlayersOnlyDirty(w)).map.visible_tiles
           /\ BeforeMonsterAI.map.revealed_tiles =
                 VisibilitySystem(PlayersOnlyDirty(w)).map.revealed_tiles
           /\ DirtyPlayers = {} =>
                 /\ BeforeMonsterAI.map.visible_tiles = w.map.visible_tiles
                 /\ BeforeMonsterAI.map.revealed_tiles = w.map.revealed_tiles

\* a pass is about to recompute the viewshed of a monster that moved, and not
\* the player's
OnlyMonsterDirty ==
    /\ runstate.name = "PlayerTurn"
    /\ DirtyPlayers = {}
    /\ \E m \in DirtyViewers(delete_the_dead(ecs)) :
          /\ m \in ecs.monsters
          /\ BeforeMonsterAI.viewsheds[m].visible_tiles # ecs.viewsheds[m].visible_tiles

BeforePickup(tiebreak) == AfterDamage(delete_the_dead(ecs), runstate.name, tiebreak)

\* the items named by the standing WantsToPickUpItem
PickedItems(w) == {w.wants_pickup[e].item : e \in DOMAIN w.wants_pickup}

\* C22: for each WantsToPickUpItem{collected_by, item} present when the
\* Inventory system runs, afterwards the item has no Position and has
\* InBackpack{owner: collected_by}; the Position and InBackpack of every other
\* entity are as before
PickupMovesToBackpack ==
    runstate.name \in PassStates =>
        \A tiebreak \in Tiebreaks :
            LET w == BeforePickup(tiebreak)
                after == InventorySystem(w)
            IN /\ \A e \in DOMAIN w.wants_pickup :
                    /\ ~Has(after.positions, w.wants_pickup[e].item)
                    /\ Has(after.backpack, w.wants_pickup[e].item)
                    /\ after.backpack[w.wants_pickup[e].item] =
                          [owner |-> w.wants_pickup[e].collected_by]
               /\ \A other \in w.alive \ PickedItems(w) :
                    /\ Keep(after.positions, {other}) = Keep(w.positions, {other})
                    /\ Keep(after.backpack, {other}) = Keep(w.backpack, {other})

\* a pass is about to pick up an item that lies on the ground next to others
PickupPending ==
    /\ runstate.name = "PlayerTurn"
    /\ \E e \in DOMAIN ecs.wants_pickup :
          /\ Has(ecs.positions, ecs.wants_pickup[e].item)
          /\ ecs.items \cap DOMAIN ecs.positions # {ecs.wants_pickup[e].item}

\* the world the Item Drop system starts from in the pass about to run
BeforeDrop(tiebreak) == ItemUseSystem(BeforeUse(tiebreak))

\* C23: for each WantsToDropItem{item} present when the Item Drop system runs,
\* afterwards the item has a Position equal to the dropper's current Position
\* and no InBackpack, and the dropper's own Position is unchanged
DropLandsAtDropper ==
    runstate.name \in PassStates =>
        \A tiebreak \in Tiebreaks :
            LET w == BeforeDrop(tiebreak)
                after == ItemDropSystem(w)
            IN \A e \in DOMAIN w.wants_drop :
                  /\ Has(after.positions, w.wants_drop[e].item)
                  /\ after.positions[w.wants_drop[e].item] = w.positions[e]
                  /\ ~Has(after.backpack, w.wants_drop[e].item)
                  /\ after.positions[e] = w.positions[e]

\* a pass is about to drop a carried item while the dropper stands away from
\* the tile it started on
DropPending ==
    /\ runstate.name = "PlayerTurn"
    /\ \E e \in DOMAIN ecs.wants_drop :
          /\ Has(ecs.backpack, ecs.wants_drop[e].item)
          /\ ecs.positions[e] # Point(1, 1)

\* the menu states that end in an intent
ItemMenus == {"ShowInventory", "ShowDropItem", "ShowTargeting"}

\* every intent storage of a world
Intents(w) ==
    <<w.wants_to_melee, w.wants_pickup, w.wants_use_item, w.wants_drop, w.wants_remove>>

\* C24: cancelling in ShowInventory, ShowDropItem or ShowTargeting goes to
\* AwaitingInput and inserts no intent; choosing a Ranged item in
\* ShowInventory goes to ShowTargeting{range, item} and inserts no intent; only
\* a completed selection inserts one WantsToUseItem or WantsToDropItem, on the
\* player, and goes to PlayerTurn
MenuOutcomes ==
    [][runstate.name \in ItemMenus =>
          /\ runstate'.name \in {runstate.name, "AwaitingInput", "ShowTargeting", "PlayerTurn"}
          /\ runstate'.name \in {runstate.name, "AwaitingInput"} =>
                Intents(ecs') = Intents(ecs)
          /\ (runstate'.name = "ShowTargeting" /\ runstate.name # "ShowTargeting") =>
                /\ runstate.name = "ShowInventory"
                /\ Intents(ecs') = Intents(ecs)
                /\ Has(ecs.ranged, runstate'.item)
                /\ runstate'.range = ecs.ranged[runstate'.item]
                /\ runstate'.item \in BackpackOf(ecs, ecs.player_entity)
          /\ runstate'.name = "PlayerTurn" =>
                /\ ecs'.wants_to_melee = ecs.wants_to_melee
                /\ ecs'.wants_pickup = ecs.wants_pickup
                /\ ecs'.wants_remove = ecs.wants_remove
                /\ DOMAIN ecs.wants_use_item = {} /\ DOMAIN ecs.wants_drop = {}
                /\ IF runstate.name = "ShowDropItem"
                   THEN /\ DOMAIN ecs'.wants_drop = {ecs.player_entity}
                        /\ DOMAIN ecs'.wants_use_item = {}
                   ELSE /\ DOMAIN ecs'.wants_use_item = {ecs.player_entity}
                        /\ DOMAIN ecs'.wants_drop = {}
                        /\ runstate.name = "ShowInventory" =>
                              /\ ~Has(ecs.ranged, ecs'.wants_use_item[ecs.player_entity].item)
                              /\ ecs'.wants_use_item[ecs.player_entity].target = {}
                        /\ runstate.name = "ShowTargeting" =>
                              /\ ecs'.wants_use_item[ecs.player_entity].item = runstate.item
                              /\ ecs'.wants_use_item[ecs.player_entity].target # {}]_vars

\* the targeting screen is open for a ranged item of the backpack
TargetingOpen ==
    /\ runstate.name = "ShowTargeting"
    /\ Has(ecs.ranged, runstate.item)
    /\ runstate.item \in BackpackOf(ecs, ecs.player_entity)
    /\ Intents(ecs) = <<NoStore, NoStore, NoStore, NoStore, NoStore>>

\* the keys whose action can turn out to do nothing
ActionKeys == (DOMAIN MoveKeys) \cup {"G", "Period"}

\* C25: the input adapter returns PlayerTurn only when the key produced an
\* intent or changed the player's state; a move into a wall or out of bounds,
\* a pickup with nothing under the player and a descend without stairs leave
\* the state at AwaitingInput
NoOpKeysKeepWaiting ==
    runstate.name = "AwaitingInput" =>
        \A key \in ActionKeys :
            player_input(delete_the_dead(ecs), key).ecs = delete_the_dead(ecs) =>
                player_input(delete_the_dead(ecs), key).next.name = "AwaitingInput"

\* what does hold: a key that changed the world is followed by PlayerTurn
ActingKeysTakeTurn ==
    runstate.name = "AwaitingInput" =>
        \A key \in Keys :
            player_input(delete_the_dead(ecs), key).ecs # delete_the_dead(ecs) =>
                player_input(delete_the_dead(ecs), key).next.name = "PlayerTurn"

\* the amounts of up to MaxCalls successive calls
CallSeqs == UNION {[1..k -> 1..MaxAmount] : k \in 0..MaxCalls}

\* new_damage called once for each amount, in order, for the same victim
RECURSIVE Calls(_, _, _)
Calls(store, victim, amounts) ==
    IF amounts = <<>> THEN store
    ELSE Calls(new_damage(store, victim, Head(amounts)), victim, Tail(amounts))

\* C26: new_damage never overwrites: after k calls for the same victim the
\* victim's pending list is what it held before followed by the k amounts in
\* call order, a victim without the component gets one holding just the first
\* amount, and nobody else's list changes
DamageAccumulates ==
    \A victim \in DOMAIN ecs.combat_stats :
        \A amounts \in CallSeqs :
            LET store == ecs.suffer_damage
                after == Calls(store, victim, amounts)
            IN /\ amounts # <<>> =>
                    /\ Has(after, victim)
                    /\ after[victim] =
                          (IF Has(store, victim) THEN store[victim] ELSE <<>>) \o amounts
               /\ (amounts # <<>> /\ ~Has(store, victim)) =>
                    new_damage(store, victim, Head(amounts))[victim] = <<Head(amounts)>>
               /\ \A other \in DOMAIN after \ {victim} :
                    Has(store, other) /\ after[other] = store[other]
               /\ DOMAIN after \subseteq DOMAIN store \cup {victim}

\* damage is pending on one living entity and none on another
SomePendingSomeNot ==
    /\ \E victim \in DOMAIN ecs.suffer_damage : Len(ecs.suffer_damage[victim]) > 0
    /\ DOMAIN ecs.combat_stats \ DOMAIN ecs.suffer_damage # {}

\* the tile a move key aims at, from where the player stands
Destination(w, key) ==
    Point(w.positions[w.player_entity].x + MoveKeys[key][1],
          w.positions[w.player_entity].y + MoveKeys[key][2])

\* the entities with CombatStats that tile_content lists at a point
FightersAt(w, p) ==
    {e \in SeqToSet(w.map.tile_content[xy_idx(p.x, p.y)]) : Has(w.combat_stats, e)}

\* C27: try_move_player into a tile whose tile_content holds an entity with
\* CombatStats leaves the player's Position and the Point resource unchanged
\* and puts WantsToMelee{target: that entity} on the player; into a tile with
\* no such entity it moves the player only if the tile's blocked bit is
\* false, and then marks the player's viewshed dirty
MoveOrMelee ==
    runstate.name = "AwaitingInput" =>
        \A key \in DOMAIN MoveKeys :
            LET w == delete_the_dead(ecs)
                player == w.player_entity
                dest == Destination(w, key)
                after == try_move_player(w, MoveKeys[key][1], MoveKeys[key][2])
            IN (player \in w.alive /\ dest \in AllPoints
                    /\ ~out_of_bounds(dest.x, dest.y)) =>
                 IF FightersAt(w, dest) # {}
                 THEN /\ after.positions[player] = w.positions[player]
                      /\ after.player_pos = w.player_pos
                      /\ Has(after.wants_to_melee, player)
                      /\ after.wants_to_melee[player].target \in FightersAt(w, dest)
                      /\ after.viewsheds = w.viewsheds
                 ELSE IF ~w.map.blocked[xy_idx(dest.x, dest.y)]
                 THEN /\ after.positions[player] = Point(dest.x, dest.y)
                      /\ after.player_pos = Point(dest.x, dest.y)
                      /\ after.viewsheds[player].dirty
                      /\ after.wants_to_melee = w.wants_to_melee
                 ELSE after = w

\* the player waits for a key next to a monster, a free tile and a wall
MeleeMoveOrBump ==
    /\ runstate.name = "AwaitingInput"
    /\ ecs.player_entity \in ecs.alive
    /\ \E key \in DOMAIN MoveKeys : FightersAt(ecs, Destination(ecs, key)) # {}
    /\ \E key \in DOMAIN MoveKeys :
          /\ FightersAt(ecs, Destination(ecs, key)) = {}
          /\ ~ecs.map.blocked[xy_idx(Destination(ecs, key).x, Destination(ecs, key).y)]
    /\ \E key \in DOMAIN MoveKeys :
          /\ ~out_of_bounds(Destination(ecs, key).x, Destination(ecs, key).y)
          /\ FightersAt(ecs, Destination(ecs, key)) = {}
          /\ ecs.map.blocked[xy_idx(Destination(ecs, key).x, Destination(ecs, key).y)]

\* C28: after any sequence of player moves, passes and loads the Point
\* resource equals the Position of the entity held in the Entity resource,
\* and that entity carries the Player marker
PlayerResourcesAgree ==
    /\ ecs.player_entity \in ecs.alive
    /\ ecs.player_entity \in ecs.players
    /\ Has(ecs.positions, ecs.player_entity)
    /\ ecs.player_pos = ecs.positions[ecs.player_entity]

\* a game was loaded in which the player had walked away from the start
LoadedAfterWalk ==
    /\ JustLoaded
    /\ ecs.player_pos # Point(1, 1)
    /\ ecs.monsters # {}

\* the living monsters that stand somewhere
Standing(w) == {m \in w.monsters \cap w.alive : Has(w.positions, m)}

\* no monster on the player's tile, no two monsters on one tile, the player
\* inside the map
TilesNotShared(w) ==
    /\ \A m \in Standing(w) : w.positions[m] # w.positions[w.player_entity]
    /\ \A m, n \in Standing(w) : w.positions[m] = w.positions[n] => m = n
    /\ w.positions[w.player_entity] \in AllPoints

\* C29: after any sequence of player moves and monster turns no monster
\* stands on the player's tile, no two monsters stand on the same tile, the
\* player's Position is inside the map, and a tile the player moves to had
\* its blocked bit false when the player moved
NoSharedTiles ==
    [][/\ TilesNotShared(ecs)
       /\ TilesNotShared(ecs')
       /\ ecs'.positions[ecs.player_entity] # ecs.positions[ecs.player_entity] =>
             /\ runstate.name = "AwaitingInput"
             /\ ~ecs.map.blocked[xy_idx(ecs'.positions[ecs.player_entity].x,
                                        ecs'.positions[ecs.player_entity].y)]]_vars

\* the monsters are about to act, one of them chasing the player with another
\* monster on a tile next to it, after the player has walked
MonstersCrowd ==
    /\ runstate.name = "MonsterTurn"
    /\ ecs.player_pos # Point(1, 1)
    /\ \E m, n \in Standing(ecs) :
          /\ m # n
          /\ Chasing(BeforeMonsterAI, m)
          /\ DistSq(ecs.positions[m], ecs.positions[n]) <= 2

\* the living entities with CombatStats and a Position that tile_content does
\* not list at their tile
Unlisted(w) ==
    {e \in w.alive :
        /\ Has(w.combat_stats, e)
        /\ Has(w.positions, e)
        /\ e \notin SeqToSet(w.map.tile_content[xy_idx(w.positions[e].x, w.positions[e].y)])}

\* C30: whenever the input adapter reads tile_content in AwaitingInput, the
\* first input after a load included, every living entity with CombatStats
\* and a Position is listed at its tile, so that a move into a monster's tile
\* produces a WantsToMelee
FightersListedAtInput ==
    runstate.name = "AwaitingInput" =>
        /\ Unlisted(delete_the_dead(ecs)) = {}
        /\ \A key \in DOMAIN MoveKeys :
              LET w == delete_the_dead(ecs)
              IN (\E m \in Standing(w) : w.positions[m] = Destination(w, key)) =>
                    Has(try_move_player(w, MoveKeys[key][1], MoveKeys[key][2]).wants_to_melee,
                        w.player_entity)

\* a loaded game waits for its first key with a monster next to the player
LoadedNextToMonster ==
    /\ JustLoaded
    /\ \E key \in DOMAIN MoveKeys :
          \E m \in Standing(ecs) : ecs.positions[m] = Destination(ecs, key)

\* each owner has at most one equipped item per slot
OnePerSlot(w) ==
    \A i, j \in DOMAIN w.equipped :
        (w.equipped[i].owner = w.equipped[j].owner /\ w.equipped[i].slot = w.equipped[j].slot)
            => i = j

\* C31: after any sequence of equip and remove operations each owner has at
\* most one item with Equipped{owner, slot} per slot; this holds of the world
\* as the program leaves it and of the world the Item Remove system makes of
\* it
OneItemPerSlot ==
    /\ OnePerSlot(ecs)
    /\ OnePerSlot(ItemRemoveSystem(ecs))

\* the player wears an item in each of two slots, carries another equippable
\* item in the backpack, and has asked to remove a worn one
WornSwappedAndRemoving ==
    /\ Cardinality({ecs.equipped[i].slot : i \in EquippedBy(ecs, ecs.player_entity)}) = 2
    /\ \E i \in BackpackOf(ecs, ecs.player_entity) : Has(ecs.equippable, i)
    /\ DOMAIN ecs.wants_remove # {}
    /\ ItemRemoveSystem(ecs).equipped # ecs.equipped

====
